---- MODULE Spec2Model ----
(***************************************************************************)
(* Model of the memory simulation engine, src/memory_manager.py            *)
(* (class MemoryManager): the frame array, the page table, the FIFO queue  *)
(* and LRU timestamp dictionary, the counters, the operation log and the   *)
(* id counter, with one action per public operation; of the tutorial       *)
(* manager, src/tutorial_manager.py; and of the routes of src/app.py that  *)
(* serve the simulation from one global engine.                            *)
(***************************************************************************)
EXTENDS Integers, Sequences, FiniteSets, TLC

VARIABLES
    technique,          \* self.technique
    memory_size,        \* self.memory_size
    page_size,          \* self.page_size
    algorithm,          \* self.algorithm
    total_frames,       \* self.total_frames
    memory,             \* self.memory: frame index -> [status, id]
    page_table,         \* self.page_table: owner id -> sequence of frame indices
    page_queue,         \* self.page_queue: sequence of <<owner id, frame index>>
    page_access_time,   \* self.page_access_time: insertion-ordered dict, as a
                        \* sequence of [key |-> <<owner id, frame index>>, time]
    page_faults,        \* self.page_faults
    memory_accesses,    \* self.memory_accesses
    page_hits,          \* self.page_hits
    operations,         \* self.operations
    next_id,            \* self.next_id
    last,               \* what the most recent call did and returned
    memory_manager,     \* app.py: the global memory_manager, None or the engine
    sessions,           \* the clients that started a simulation and have not
                        \* reset it since
    response,           \* the reply to the most recent request, and who asked
    current_tutorial,   \* TutorialManager: self.current_tutorial
    current_step,       \* TutorialManager: self.current_step
    completed_tutorials,\* TutorialManager: self.completed_tutorials
    driven,             \* twin run: the calls made to the first engine, each
                        \* with what was observed after it
    replayed            \* twin run: how many of them the second engine has
                        \* repeated

vars == <<technique, memory_size, page_size, algorithm, total_frames, memory, page_table,
          page_queue, page_access_time, page_faults, memory_accesses,
          page_hits, operations, next_id, last,
          memory_manager, sessions, response,
          current_tutorial, current_step, completed_tutorials,
          driven, replayed>>

\* The engine state proper (everything but the record of the last call).
engine == <<technique, memory_size, page_size, algorithm, total_frames, memory, page_table,
            page_queue, page_access_time, page_faults, memory_accesses,
            page_hits, operations, next_id>>

config == <<technique, memory_size, page_size, algorithm, total_frames>>

\* The application around the engine, the tutorial manager, the twin run.
app == <<memory_manager, sessions, response>>

tutorial == <<current_tutorial, current_step, completed_tutorials>>

twin == <<driven, replayed>>

\* Everything that is not the engine and the record of its last call.
outside == <<app, tutorial, twin>>

(***************************************************************************)
(* Bounds and input sets                                                   *)
(***************************************************************************)
\* Longest operation log explored.
MaxOps == 4

\* Longest operation log explored in the four-frame scenarios.
MaxOps4 == 6

\* Longest operation log explored with the snapshot calls.
MaxOpsR == 4

\* 'id': None of a free frame; owner ids start at 1.
NoId == 0

\* Python's None where a string may stand.
None == "None"

Algorithms == {"FIFO", "LRU"}

\* Number of frames and page size of the engine explored by Spec.
NumFrames == 3

PageSize == 2

\* Requested sizes in bytes: less than a page, one page, just over a page
\* (two pages), the whole memory, and one byte more (over capacity).
Sizes == {1, PageSize, PageSize + 1, NumFrames * PageSize,
          NumFrames * PageSize + 1}

\* Addresses: below zero (frame -1), frame 0, inside frame 1, the base of
\* frame 2, and the first address beyond the memory.
Addresses == {-1, 0, PageSize + 1, 2 * PageSize, NumFrames * PageSize}

\* The four-frame engine of the eviction-order scenarios (memory size 8, page
\* size 2). Sizes: one page (2), two pages (3), five pages (9, over capacity).
Sizes4 == {2, 3, 9}

\* Accesses to frames 0, 1 and 2.
AccessAddresses4 == {0, 2, 5}

\* Deallocations at frame 0 and beyond the memory.
DeallocAddresses4 == {0, 8}

(***************************************************************************)
(* Helpers                                                                 *)
(***************************************************************************)
Frames == 0 .. (total_frames - 1)

FreeFrame == [status |-> "free", id |-> NoId]

AllocatedFrame(process_id) == [status |-> "allocated", id |-> process_id]

\* [i for i, frame in enumerate(mem) if frame['status'] == status], ascending.
FramesWithStatus(mem, status) ==
    SelectSeq([i \in 1 .. total_frames |-> i - 1],
              LAMBDA f : mem[f].status = status)

SeqToSet(s) == {s[i] : i \in 1 .. Len(s)}

Min(a, b) == IF a < b THEN a ELSE b

Max(a, b) == IF a > b THEN a ELSE b

\* Python slice s[:n] for n >= 0.
Prefix(s, n) == SubSeq(s, 1, Min(n, Len(s)))

\* d[key] = time on an insertion-ordered dict: an existing key keeps its place.
DictSet(d, key, time) ==
    IF \E i \in 1 .. Len(d) : d[i].key = key
    THEN [i \in 1 .. Len(d) |->
            IF d[i].key = key THEN [key |-> key, time |-> time] ELSE d[i]]
    ELSE Append(d, [key |-> key, time |-> time])

DictKeys(d) == {d[i].key : i \in 1 .. Len(d)}

\* What a call did: its operation and argument, how it ended, and what it
\* returned (an address, a hit flag) and evicted.
Called(op, arg, outcome, address, hit, victims) ==
    [op |-> op, arg |-> arg, outcome |-> outcome, address |-> address,
     hit |-> hit, victims |-> victims]

(***************************************************************************)
(* Construction                                                            *)
(***************************************************************************)
\* NewEngine rounding the number of frames up (a partial last frame counts).
NewEngineCeil(tech, msize, psize, alg) ==
    /\ technique = tech
    /\ memory_size = msize
    /\ page_size = psize
    /\ algorithm = alg
    /\ total_frames = (msize + psize - 1) \div psize
    /\ memory = [f \in 0 .. (((msize + psize - 1) \div psize) - 1) |-> FreeFrame]
    /\ page_table = <<>>
    /\ page_queue = <<>>
    /\ page_access_time = <<>>
    /\ page_faults = 0
    /\ memory_accesses = 0
    /\ page_hits = 0
    /\ operations = <<>>
    /\ next_id = 1
    /\ last = Called("new", msize, "ok", -1, FALSE, <<>>)

\* MemoryManager.__init__
NewEngine(tech, msize, psize, alg) ==
    /\ technique = tech
    /\ memory_size = msize
    /\ page_size = psize
    /\ algorithm = alg
    /\ total_frames = msize \div psize
    /\ memory = [f \in 0 .. ((msize \div psize) - 1) |-> FreeFrame]
    /\ page_table = <<>>
    /\ page_queue = <<>>
    /\ page_access_time = <<>>
    /\ page_faults = 0
    /\ memory_accesses = 0
    /\ page_hits = 0
    /\ operations = <<>>
    /\ next_id = 1
    /\ last = Called("new", msize, "ok", -1, FALSE, <<>>)

\* No request has been answered yet.
NoResponse ==
    [client |-> None, route |-> None, status |-> 0, message |-> None,
     body |-> <<>>]

\* app.py lines 15-16: memory_manager = None, and no client has asked for
\* anything.
NewApp ==
    /\ memory_manager = None
    /\ sessions = {}
    /\ response = NoResponse

\* TutorialManager.__init__ (tutorial_manager.py lines 14-16).
NewTutorialManager ==
    /\ current_tutorial = None
    /\ current_step = 0
    /\ completed_tutorials = {}

\* No twin run.
NoTwin ==
    /\ driven = <<>>
    /\ replayed = 0

\* The engine is driven on its own: the application has just been loaded
\* and stays as it is.
Idle == NewApp /\ NewTutorialManager /\ NoTwin

Init ==
    /\ \E alg \in Algorithms :
          NewEngine("paging", NumFrames * PageSize, PageSize, alg)
    /\ Idle

Init4 ==
    /\ \E alg \in Algorithms : NewEngine("paging", 8, 2, alg)
    /\ Idle

(***************************************************************************)
(* Replacement subroutine: MemoryManager._replace_pages                    *)
(* It works on a record e of the fields it reads and writes, plus the      *)
(* sequence of victims evicted so far and whether the loop hit 'break'.    *)
(***************************************************************************)
\* EvictFrame without line 338: the eviction is not counted as a page fault.
EvictFrameUncounted(e, process_id, frame_idx) ==
    LET remaining == IF process_id \in DOMAIN e.page_table
                     THEN SelectSeq(e.page_table[process_id],
                                    LAMBDA f : f # frame_idx)
                     ELSE <<>>
        table == IF process_id \in DOMAIN e.page_table
                 THEN IF remaining = <<>>
                      THEN [p \in (DOMAIN e.page_table) \ {process_id} |->
                              e.page_table[p]]
                      ELSE [e.page_table EXCEPT ![process_id] = remaining]
                 ELSE e.page_table
    IN  [e EXCEPT !.memory = [e.memory EXCEPT ![frame_idx] = FreeFrame],
                  !.page_table = table,
                  !.victims = Append(e.victims, <<process_id, frame_idx>>)]

\* EvictFrame without lines 333-336: the page table keeps the evicted frame.
EvictFrameKeepTable(e, process_id, frame_idx) ==
    [e EXCEPT !.memory = [e.memory EXCEPT ![frame_idx] = FreeFrame],
              !.page_faults = e.page_faults + 1,
              !.victims = Append(e.victims, <<process_id, frame_idx>>)]

\* Lines 329-338: free the frame, drop it from the owner's page-table
\* sequence (deleting an emptied entry), count one page fault.
EvictFrame(e, process_id, frame_idx) ==
    LET remaining == IF process_id \in DOMAIN e.page_table
                     THEN SelectSeq(e.page_table[process_id],
                                    LAMBDA f : f # frame_idx)
                     ELSE <<>>
        table == IF process_id \in DOMAIN e.page_table
                 THEN IF remaining = <<>>
                      THEN [p \in (DOMAIN e.page_table) \ {process_id} |->
                              e.page_table[p]]
                      ELSE [e.page_table EXCEPT ![process_id] = remaining]
                 ELSE e.page_table
    IN  [e EXCEPT !.memory = [e.memory EXCEPT ![frame_idx] = FreeFrame],
                  !.page_table = table,
                  !.page_faults = e.page_faults + 1,
                  !.victims = Append(e.victims, <<process_id, frame_idx>>)]

\* PopLeft taking the newest entry (pop() for popleft()).
PopRight(queue) ==
    [item |-> queue[Len(queue)], rest |-> SubSeq(queue, 1, Len(queue) - 1)]

\* PopLeft reading the head without removing it.
PeekLeft(queue) == [item |-> Head(queue), rest |-> queue]

\* Line 289: self.page_queue.popleft(), the item and the queue left behind.
PopLeft(queue) == [item |-> Head(queue), rest |-> Tail(queue)]

\* LRUVictimIndex with max for min: the most recently touched entry.
MRUVictimIndex(d) ==
    CHOOSE i \in 1 .. Len(d) :
        /\ \A j \in 1 .. Len(d) : d[i].time >= d[j].time
        /\ \A j \in 1 .. (i - 1) : d[j].time < d[i].time

\* Line 305: min(self.page_access_time.items(), key=lambda x: x[1])[0], the
\* first entry in iteration order among those with the least timestamp.
LRUVictimIndex(d) ==
    CHOOSE i \in 1 .. Len(d) :
        /\ \A j \in 1 .. Len(d) : d[i].time <= d[j].time
        /\ \A j \in 1 .. (i - 1) : d[j].time > d[i].time

LRUVictim(d) == d[LRUVictimIndex(d)].key

\* Lines 320-338: the safety checks (a failed check is 'continue'), then the
\* eviction proper.
CheckedEvict(e, process_id, frame_idx) ==
    IF frame_idx >= total_frames \/ frame_idx < 0
    THEN e
    ELSE EvictFrame(e, process_id, frame_idx)

\* Lines 278-285 (and 294-301, 310-317): the first allocated frame, or break.
EvictFirstAllocated(e) ==
    LET allocated_frames == FramesWithStatus(e.memory, "allocated")
    IN  IF allocated_frames = <<>>
        THEN [e EXCEPT !.stopped = TRUE]
        ELSE CheckedEvict(e, e.memory[allocated_frames[1]].id,
                          allocated_frames[1])

\* One iteration of the loop of lines 269-344.
ReplaceOne(e) ==
    IF algorithm = "FIFO"
    THEN IF e.page_queue = <<>>
         THEN EvictFirstAllocated(e)
         ELSE LET popped == PopLeft(e.page_queue)
              IN  CheckedEvict([e EXCEPT !.page_queue = popped.rest],
                               popped.item[1], popped.item[2])
    ELSE IF algorithm = "LRU"
    THEN IF e.page_access_time = <<>>
         THEN EvictFirstAllocated(e)
         ELSE LET lru_key == LRUVictim(e.page_access_time)
              IN  CheckedEvict([e EXCEPT !.page_access_time =
                                    SelectSeq(e.page_access_time,
                                              LAMBDA x : x.key # lru_key)],
                               lru_key[1], lru_key[2])
    ELSE EvictFirstAllocated(e)

RECURSIVE ReplaceLoop(_, _)
ReplaceLoop(e, num_pages) ==
    IF num_pages <= 0 \/ e.stopped
    THEN e
    ELSE ReplaceLoop(ReplaceOne(e), num_pages - 1)

\* _replace_pages(num_pages) applied to the current engine state.
ReplacePages(num_pages) ==
    ReplaceLoop([memory |-> memory, page_table |-> page_table,
                 page_queue |-> page_queue,
                 page_access_time |-> page_access_time,
                 page_faults |-> page_faults,
                 victims |-> <<>>, stopped |-> FALSE],
                num_pages)

(***************************************************************************)
(* allocate_memory(size), size > 0 (the callers pass positive sizes only)  *)
(***************************************************************************)
\* NumPagesNeeded rounding down (size // page_size).
NumPagesFloor(size) == size \div page_size

\* Line 66: ceil(size / page_size).
NumPagesNeeded(size) == (size + page_size - 1) \div page_size

\* FramesToReplace one short of the shortfall.
FramesToReplaceLess(num_pages_needed, free_frames) ==
    num_pages_needed - Len(free_frames) - 1

\* Line 76: the shortfall handed to _replace_pages.
FramesToReplace(num_pages_needed, free_frames) ==
    num_pages_needed - Len(free_frames)

\* ChooseFrames taking the highest free frames (free_frames[-n:]).
ChooseHighest(free_frames, num_pages_needed) ==
    SubSeq(free_frames,
           Max(1, Len(free_frames) - num_pages_needed + 1), Len(free_frames))

\* ChooseFrames placing a segment at the top of the free frames when the
\* technique is segmentation.
ChooseFramesByTechnique(free_frames, num_pages_needed) ==
    IF technique = "segmentation"
    THEN SubSeq(free_frames,
                Max(1, Len(free_frames) - num_pages_needed + 1),
                Len(free_frames))
    ELSE Prefix(free_frames, num_pages_needed)

\* Line 85: allocated_frames = free_frames[:num_pages_needed]
ChooseFrames(free_frames, num_pages_needed) ==
    Prefix(free_frames, num_pages_needed)

\* Line 96, over the loop of line 87: the queue after the appends.
QueueAfterAllocate(queue, process_id, allocated_frames) ==
    queue \o [i \in 1 .. Len(allocated_frames) |->
                <<process_id, allocated_frames[i]>>]

\* Line 98, over the loop of line 87: the dictionary after the assignments.
RECURSIVE TimesAfterAllocate(_, _, _, _)
TimesAfterAllocate(d, process_id, allocated_frames, now) ==
    IF allocated_frames = <<>>
    THEN d
    ELSE TimesAfterAllocate(
             DictSet(d, <<process_id, Head(allocated_frames)>>, now),
             process_id, Tail(allocated_frames), now)

\* NextIdAfter leaving the counter where it is.
NextIdKept(id) == id

\* Lines 83 and 366: self.next_id += 1
NextIdAfter(id) == id + 1

\* Line 110: allocated_frames[0] * self.page_size
AllocateResult(allocated_frames) == allocated_frames[1] * page_size

allocate_memory(size) ==
    LET num_pages_needed == NumPagesNeeded(size)
    IN
    IF num_pages_needed > total_frames
    THEN \* line 69: raise ValueError("Requested size ... exceeds total memory size")
         /\ last' = Called("allocate", size, "capacity_error", -1, FALSE, <<>>)
         /\ UNCHANGED engine
    ELSE
    LET free_before == FramesWithStatus(memory, "free")
        replaced == IF Len(free_before) < num_pages_needed
                    THEN ReplacePages(FramesToReplace(num_pages_needed,
                                                      free_before))
                    ELSE ReplacePages(0)
        free_frames == FramesWithStatus(replaced.memory, "free")
        process_id == next_id
        allocated_frames == ChooseFrames(free_frames, num_pages_needed)
    IN
        /\ next_id' = NextIdAfter(next_id)
        /\ memory' = [f \in Frames |->
                        IF f \in SeqToSet(allocated_frames)
                        THEN AllocatedFrame(process_id)
                        ELSE replaced.memory[f]]
        /\ page_table' =
             IF allocated_frames = <<>>
             THEN replaced.page_table
             ELSE [p \in (DOMAIN replaced.page_table) \cup {process_id} |->
                     IF p = process_id THEN allocated_frames
                     ELSE replaced.page_table[p]]
        /\ page_queue' =
             IF algorithm = "FIFO"
             THEN QueueAfterAllocate(replaced.page_queue, process_id,
                                     allocated_frames)
             ELSE replaced.page_queue
        /\ page_access_time' =
             IF algorithm = "LRU"
             THEN TimesAfterAllocate(replaced.page_access_time, process_id,
                                     allocated_frames, memory_accesses)
             ELSE replaced.page_access_time
        /\ page_faults' = replaced.page_faults
        /\ operations' = Append(operations,
                                [type |-> "allocate", process_id |-> process_id,
                                 size |-> size, frames |-> allocated_frames])
        /\ last' = IF allocated_frames = <<>>
                   THEN \* line 110 raises IndexError on an empty list
                        Called("allocate", size, "index_error", -1, FALSE,
                               replaced.victims)
                   ELSE Called("allocate", size, "ok",
                               AllocateResult(allocated_frames), FALSE,
                               replaced.victims)
        /\ UNCHANGED <<config, memory_accesses, page_hits>>

(***************************************************************************)
(* deallocate_memory(address)                                              *)
(***************************************************************************)
\* FrameOf bringing the frame number into range, as access does.
FrameOfClamped(address) ==
    IF address \div page_size < 0 THEN 0
    ELSE IF address \div page_size >= total_frames THEN total_frames - 1
    ELSE address \div page_size

\* Line 129 (and 210): frame_num = address // self.page_size
FrameOf(address) == address \div page_size

\* Lines 131: the bounds check of deallocate.
OutOfBounds(frame_num) == frame_num >= total_frames \/ frame_num < 0

\* ProcessFrames freeing the resolved frame only.
OnlyResolvedFrame(process_id, frame_num) == <<frame_num>>

\* ProcessFrames freeing every allocated frame, whoever owns it.
EveryAllocatedFrame(process_id, frame_num) ==
    FramesWithStatus(memory, "allocated")

\* Lines 154-157: the frames deallocate frees.
ProcessFrames(process_id, frame_num) ==
    IF process_id \in DOMAIN page_table /\ page_table[process_id] # <<>>
    THEN page_table[process_id]
    ELSE <<frame_num>>

\* FallbackFrame taking the last allocated frame.
FallbackLast(allocated_frames) == allocated_frames[Len(allocated_frames)]

\* Line 145: frame_num = allocated_frames[0][0]
FallbackFrame(allocated_frames) == allocated_frames[1]

deallocate_memory(address) ==
    LET addressed == FrameOf(address)
        allocated_frames == FramesWithStatus(memory, "allocated")
    IN
    IF OutOfBounds(addressed)
    THEN \* line 132: raise ValueError("Invalid address ...")
         /\ last' = Called("deallocate", address, "invalid_address", -1,
                           FALSE, <<>>)
         /\ UNCHANGED engine
    ELSE IF memory[addressed].status # "allocated" /\ allocated_frames = <<>>
    THEN \* line 142: raise ValueError("No allocated memory to deallocate")
         /\ last' = Called("deallocate", address, "nothing_allocated", -1,
                           FALSE, <<>>)
         /\ UNCHANGED engine
    ELSE
    LET frame_num == IF memory[addressed].status # "allocated"
                     THEN FallbackFrame(allocated_frames)
                     ELSE addressed
        process_id == memory[frame_num].id
        process_frames == ProcessFrames(process_id, frame_num)
        freed == {f \in SeqToSet(process_frames) : 0 <= f /\ f < total_frames}
    IN
    IF process_id = NoId
    THEN \* line 151: raise ValueError("No process ID associated with frame")
         /\ last' = Called("deallocate", address, "no_process_id", -1,
                           FALSE, <<>>)
         /\ UNCHANGED engine
    ELSE
        /\ memory' = [f \in Frames |->
                        IF f \in freed THEN FreeFrame ELSE memory[f]]
        /\ page_queue' =
             IF algorithm = "FIFO" /\ freed # {}
             THEN SelectSeq(page_queue, LAMBDA p : p[1] # process_id)
             ELSE page_queue
        /\ page_access_time' =
             IF algorithm = "LRU" /\ freed # {}
             THEN SelectSeq(page_access_time,
                            LAMBDA x : x.key[1] # process_id)
             ELSE page_access_time
        /\ page_table' = [p \in (DOMAIN page_table) \ {process_id} |->
                            page_table[p]]
        /\ operations' = Append(operations,
                                [type |-> "deallocate",
                                 process_id |-> process_id,
                                 address |-> frame_num * page_size,
                                 frames |-> process_frames])
        /\ last' = Called("deallocate", address, "ok", frame_num * page_size,
                          FALSE, <<>>)
        /\ UNCHANGED <<config, page_faults, memory_accesses, page_hits,
                       next_id>>

(***************************************************************************)
(* access_memory(address)                                                  *)
(***************************************************************************)
\* ClampFrame sending every out-of-range frame number to frame 0.
ClampToZero(frame_num) ==
    IF frame_num >= total_frames \/ frame_num < 0 THEN 0 ELSE frame_num

\* Lines 212-215: an out-of-range frame number is clamped into range.
ClampFrame(frame_num) ==
    IF frame_num >= total_frames \/ frame_num < 0
    THEN Min(Max(0, frame_num), total_frames - 1)
    ELSE frame_num

\* PageFault without lines 378-382: no replacement metadata for the frame.
PageFaultNoMetadata(address, frame_num) ==
    LET process_id == next_id
    IN
    /\ memory_accesses' = memory_accesses + 1
    /\ page_faults' = page_faults + 1
    /\ next_id' = NextIdAfter(next_id)
    /\ memory' = [memory EXCEPT ![frame_num] = AllocatedFrame(process_id)]
    /\ page_table' =
         IF process_id \in DOMAIN page_table
         THEN [page_table EXCEPT ![process_id] = Append(@, frame_num)]
         ELSE [p \in (DOMAIN page_table) \cup {process_id} |->
                 IF p = process_id THEN <<frame_num>> ELSE page_table[p]]
    /\ operations' = Append(operations,
                            [type |-> "access", address |-> address,
                             result |-> "fault"])
    /\ last' = Called("access", address, "ok", -1, FALSE, <<>>)
    /\ UNCHANGED <<config, page_hits, page_queue, page_access_time>>

\* PageFault without the call of line 226: the fault is counted and logged
\* and the frame stays free.
PageFaultKeepFree(address, frame_num) ==
    /\ memory_accesses' = memory_accesses + 1
    /\ page_faults' = page_faults + 1
    /\ operations' = Append(operations,
                            [type |-> "access", address |-> address,
                             result |-> "fault"])
    /\ last' = Called("access", address, "ok", -1, FALSE, <<>>)
    /\ UNCHANGED <<config, memory, page_table, page_queue, page_access_time,
                   page_hits, next_id>>

\* Lines 220-237 with _handle_page_fault (349-387): the access faults and the
\* free frame is allocated to a new owner.
PageFault(address, frame_num) ==
    LET process_id == next_id
    IN
    /\ memory_accesses' = memory_accesses + 1
    /\ page_faults' = page_faults + 1
    /\ next_id' = NextIdAfter(next_id)
    /\ memory' = [memory EXCEPT ![frame_num] = AllocatedFrame(process_id)]
    /\ page_table' =
         IF process_id \in DOMAIN page_table
         THEN [page_table EXCEPT ![process_id] = Append(@, frame_num)]
         ELSE [p \in (DOMAIN page_table) \cup {process_id} |->
                 IF p = process_id THEN <<frame_num>> ELSE page_table[p]]
    /\ page_queue' =
         IF algorithm = "FIFO"
         THEN Append(page_queue, <<process_id, frame_num>>)
         ELSE page_queue
    /\ page_access_time' =
         IF algorithm = "LRU"
         THEN DictSet(page_access_time, <<process_id, frame_num>>,
                      memory_accesses + 1)
         ELSE page_access_time
    /\ operations' = Append(operations,
                            [type |-> "access", address |-> address,
                             result |-> "fault"])
    /\ last' = Called("access", address, "ok", -1, FALSE, <<>>)
    /\ UNCHANGED <<config, page_hits>>

\* PageHit storing the access count read before line 217 incremented it.
PageHitStale(address, frame_num) ==
    /\ memory_accesses' = memory_accesses + 1
    /\ page_hits' = page_hits + 1
    /\ page_access_time' =
         IF algorithm = "LRU"
         THEN DictSet(page_access_time, <<memory[frame_num].id, frame_num>>,
                      memory_accesses)
         ELSE page_access_time
    /\ operations' = Append(operations,
                            [type |-> "access", address |-> address,
                             result |-> "hit"])
    /\ last' = Called("access", address, "ok", -1, TRUE, <<>>)
    /\ UNCHANGED <<config, memory, page_table, page_queue, page_faults,
                   next_id>>

\* PageHit without line 240: the hit is not counted.
PageHitUncounted(address, frame_num) ==
    /\ memory_accesses' = memory_accesses + 1
    /\ page_access_time' =
         IF algorithm = "LRU"
         THEN DictSet(page_access_time, <<memory[frame_num].id, frame_num>>,
                      memory_accesses + 1)
         ELSE page_access_time
    /\ operations' = Append(operations,
                            [type |-> "access", address |-> address,
                             result |-> "hit"])
    /\ last' = Called("access", address, "ok", -1, TRUE, <<>>)
    /\ UNCHANGED <<config, memory, page_table, page_queue, page_faults,
                   page_hits, next_id>>

\* Lines 238-254: the access hits.
PageHit(address, frame_num) ==
    /\ memory_accesses' = memory_accesses + 1
    /\ page_hits' = page_hits + 1
    /\ page_access_time' =
         IF algorithm = "LRU"
         THEN DictSet(page_access_time, <<memory[frame_num].id, frame_num>>,
                      memory_accesses + 1)
         ELSE page_access_time
    /\ operations' = Append(operations,
                            [type |-> "access", address |-> address,
                             result |-> "hit"])
    /\ last' = Called("access", address, "ok", -1, TRUE, <<>>)
    /\ UNCHANGED <<config, memory, page_table, page_queue, page_faults,
                   next_id>>

access_memory(address) ==
    LET frame_num == ClampFrame(FrameOf(address))
    IN  IF frame_num \notin Frames
        THEN \* no frame at all: line 217 has counted the access when
             \* self.memory[frame_num] of line 218 raises IndexError
             /\ memory_accesses' = memory_accesses + 1
             /\ last' = Called("access", address, "index_error", -1, FALSE,
                               <<>>)
             /\ UNCHANGED <<config, memory, page_table, page_queue,
                            page_access_time, page_faults, page_hits,
                            operations, next_id>>
        ELSE IF memory[frame_num].status # "allocated"
        THEN PageFault(address, frame_num)
        ELSE PageHit(address, frame_num)

(***************************************************************************)
(* Specifications                                                          *)
(***************************************************************************)
Allocate ==
    /\ Len(operations) < MaxOps
    /\ \E size \in Sizes : allocate_memory(size)
    /\ UNCHANGED outside

Deallocate ==
    /\ Len(operations) < MaxOps
    /\ \E address \in Addresses : deallocate_memory(address)
    /\ UNCHANGED outside

Access ==
    /\ Len(operations) < MaxOps
    /\ \E address \in Addresses : access_memory(address)
    /\ UNCHANGED outside

Next == Allocate \/ Deallocate \/ Access

Spec == Init /\ [][Next]_vars

\* Four frames, as in the eviction-order scenarios.
Allocate4 ==
    /\ Len(operations) < MaxOps4
    /\ \E size \in Sizes4 : allocate_memory(size)
    /\ UNCHANGED outside

Deallocate4 ==
    /\ Len(operations) < MaxOps4
    /\ \E address \in DeallocAddresses4 : deallocate_memory(address)
    /\ UNCHANGED outside

Access4 ==
    /\ Len(operations) < MaxOps4
    /\ \E address \in AccessAddresses4 : access_memory(address)
    /\ UNCHANGED outside

Next4 == Allocate4 \/ Deallocate4 \/ Access4

Spec4 == Init4 /\ [][Next4]_vars

(***************************************************************************)
(* Snapshots: get_current_state and get_results                            *)
(***************************************************************************)
\* Line 407: the snapshot shows the last 10 operations.
SnapshotOps == 10

\* LastOperations showing the first 10 operations (operations[:10]).
FirstOperations(log) == Prefix(log, SnapshotOps)

\* Line 407: self.operations[-10:] if self.operations else []
LastOperations(log) ==
    IF Len(log) > SnapshotOps
    THEN SubSeq(log, Len(log) - SnapshotOps + 1, Len(log))
    ELSE log

RECURSIVE GCD(_, _)
GCD(a, b) == IF b = 0 THEN a ELSE GCD(b, a % b)

\* Python's a / b for integers a >= 0 and b > 0: the quotient, kept exact as
\* a fraction in lowest terms (two quotients are equal as floats exactly
\* when they are equal as fractions, for operands this small).
Quotient(a, b) == [num |-> a \div GCD(a, b), den |-> b \div GCD(a, b)]

\* The integer 0 that lines 417, 418 and 421 return instead of a quotient.
Zero == [num |-> 0, den |-> 1]

\* Line 417.
HitRatio ==
    IF memory_accesses > 0
    THEN Quotient(page_hits, Max(1, memory_accesses))
    ELSE Zero

\* MissRatio as the complement of the hit ratio.
MissRatioComplement ==
    IF memory_accesses > 0
    THEN Quotient(memory_accesses - page_hits, Max(1, memory_accesses))
    ELSE Zero

\* Line 418.
MissRatio ==
    IF memory_accesses > 0
    THEN Quotient(page_faults, Max(1, memory_accesses))
    ELSE Zero

\* AllocatedCount counting the owners instead of their frames.
OwnerCount == Cardinality(DOMAIN page_table)

\* Line 420: sum(1 for frame in self.memory if frame['status'] == 'allocated')
AllocatedCount == Len(FramesWithStatus(memory, "allocated"))

\* Line 421.
Utilization ==
    IF total_frames > 0 THEN Quotient(AllocatedCount, total_frames) ELSE Zero

\* What a snapshot call did and returned.
Read(op, result) ==
    [op |-> op, arg |-> 0, outcome |-> "ok", address |-> -1, hit |-> FALSE,
     victims |-> <<>>, result |-> result]

\* Lines 396-408.
get_current_state ==
    /\ last' = Read("current_state",
                    [technique |-> technique,
                     memory_size |-> memory_size,
                     page_size |-> page_size,
                     algorithm |-> algorithm,
                     total_frames |-> total_frames,
                     memory |-> memory,
                     page_table |-> page_table,
                     page_faults |-> page_faults,
                     memory_accesses |-> memory_accesses,
                     page_hits |-> page_hits,
                     operations |-> LastOperations(operations)])
    /\ UNCHANGED engine

\* get_results clearing the counters it has reported (read and reset).
get_results_clearing ==
    /\ last' = Read("results",
                    [page_faults |-> page_faults,
                     memory_accesses |-> memory_accesses,
                     page_hits |-> page_hits,
                     hit_ratio |-> HitRatio,
                     miss_ratio |-> MissRatio,
                     memory_utilization |-> Utilization,
                     allocated_frames |-> AllocatedCount,
                     total_frames |-> total_frames])
    /\ page_faults' = 0
    /\ memory_accesses' = 0
    /\ page_hits' = 0
    /\ UNCHANGED <<config, memory, page_table, page_queue, page_access_time,
                   operations, next_id>>

\* get_results counting itself as a memory access.
get_results_counted ==
    /\ last' = Read("results",
                    [page_faults |-> page_faults,
                     memory_accesses |-> memory_accesses,
                     page_hits |-> page_hits,
                     hit_ratio |-> HitRatio,
                     miss_ratio |-> MissRatio,
                     memory_utilization |-> Utilization,
                     allocated_frames |-> AllocatedCount,
                     total_frames |-> total_frames])
    /\ memory_accesses' = memory_accesses + 1
    /\ UNCHANGED <<config, memory, page_table, page_queue, page_access_time,
                   page_faults, page_hits, operations, next_id>>

\* Lines 417-432.
get_results ==
    /\ last' = Read("results",
                    [page_faults |-> page_faults,
                     memory_accesses |-> memory_accesses,
                     page_hits |-> page_hits,
                     hit_ratio |-> HitRatio,
                     miss_ratio |-> MissRatio,
                     memory_utilization |-> Utilization,
                     allocated_frames |-> AllocatedCount,
                     total_frames |-> total_frames])
    /\ UNCHANGED engine

\* The engine of the utilization scenario (memory size 256, page size 64),
\* with the snapshot calls. Sizes: one page, two pages (128), more than
\* three pages, over capacity. Addresses: frame -1, 0, 1, 3 and 4.
SizesR == {64, 128, 200, 257}

AddressesR == {-1, 0, 65, 192, 256}

InitR ==
    /\ \E alg \in Algorithms : NewEngine("paging", 256, 64, alg)
    /\ Idle

AllocateR ==
    /\ Len(operations) < MaxOpsR
    /\ \E size \in SizesR : allocate_memory(size)
    /\ UNCHANGED outside

DeallocateR ==
    /\ Len(operations) < MaxOpsR
    /\ \E address \in AddressesR : deallocate_memory(address)
    /\ UNCHANGED outside

AccessR ==
    /\ Len(operations) < MaxOpsR
    /\ \E address \in AddressesR : access_memory(address)
    /\ UNCHANGED outside

CurrentState == get_current_state /\ UNCHANGED outside

Results == get_results /\ UNCHANGED outside

NextR == AllocateR \/ DeallocateR \/ AccessR \/ CurrentState \/ Results

SpecR == InitR /\ [][NextR]_vars

\* Logs longer than the snapshot shows: any calls while the log is short
\* (up to MaxOps records), then accesses only, up to MaxOpsL records.
MaxOpsL == 11

\* One page, and more than the memory holds.
SizesL == {PageSize, NumFrames * PageSize + 1}

\* Frame 0, and the first address beyond the memory.
AddressesL == {0, NumFrames * PageSize}

InitL ==
    /\ \E alg \in Algorithms :
          NewEngine("paging", NumFrames * PageSize, PageSize, alg)
    /\ Idle

AllocateL ==
    /\ Len(operations) < MaxOps
    /\ \E size \in SizesL : allocate_memory(size)
    /\ UNCHANGED outside

DeallocateL ==
    /\ Len(operations) < MaxOps
    /\ \E address \in AddressesL : deallocate_memory(address)
    /\ UNCHANGED outside

AccessL ==
    /\ Len(operations) < MaxOpsL
    /\ \E address \in AddressesL : access_memory(address)
    /\ UNCHANGED outside

CurrentStateL == get_current_state /\ UNCHANGED outside

NextL == AllocateL \/ DeallocateL \/ AccessL \/ CurrentStateL

SpecL == InitL /\ [][NextL]_vars

(***************************************************************************)
(* Construction with arbitrary parameters: MemoryManager.__init__ checks   *)
(* none of them. The only failure is the division of line 24 by a page     *)
(* size of 0 (ZeroDivisionError), which leaves no engine.                  *)
(***************************************************************************)
TechniquesAny == {"paging", "swapping"}

AlgorithmsAny == {"FIFO", "OPT"}

\* No memory, a whole number of pages, and one byte more.
MemorySizesAny == {0, NumFrames * PageSize, NumFrames * PageSize + 1}

PageSizesAny == {0, PageSize}

\* Longest operation log of an engine constructed with arbitrary parameters.
MaxOpsN == 3

InitN ==
    /\ \E tech \in TechniquesAny, msize \in MemorySizesAny,
          psize \in PageSizesAny, alg \in AlgorithmsAny :
           /\ psize # 0
           /\ NewEngine(tech, msize, psize, alg)
    /\ Idle

AllocateN ==
    /\ Len(operations) < MaxOpsN
    /\ \E size \in Sizes : allocate_memory(size)
    /\ UNCHANGED outside

DeallocateN ==
    /\ Len(operations) < MaxOpsN
    /\ \E address \in Addresses : deallocate_memory(address)
    /\ UNCHANGED outside

\* An access to an engine without frames is counted and not logged.
AccessN ==
    /\ Len(operations) < MaxOpsN
    /\ memory_accesses < MaxOpsN
    /\ \E address \in Addresses : access_memory(address)
    /\ UNCHANGED outside

NextN == AllocateN \/ DeallocateN \/ AccessN

SpecN == InitN /\ [][NextN]_vars

(***************************************************************************)
(* Twin run: an engine is driven by a sequence of calls; then a second     *)
(* engine is constructed with the same memory size, page size and          *)
(* algorithm and the other technique, and is driven by the same calls.     *)
(***************************************************************************)
\* app.py line 49: the techniques start_simulation accepts.
Techniques == {"paging", "segmentation"}

OtherTechnique(tech) == IF tech = "paging" THEN "segmentation" ELSE "paging"

\* Construct carrying the operation log and the id counter over from the
\* engine before.
ConstructKeepingLog(tech, msize, psize, alg) ==
    /\ technique' = tech
    /\ memory_size' = msize
    /\ page_size' = psize
    /\ algorithm' = alg
    /\ total_frames' = msize \div psize
    /\ memory' = [f \in 0 .. ((msize \div psize) - 1) |-> FreeFrame]
    /\ page_table' = <<>>
    /\ page_queue' = <<>>
    /\ page_access_time' = <<>>
    /\ page_faults' = 0
    /\ memory_accesses' = 0
    /\ page_hits' = 0
    /\ last' = Called("new", msize, "ok", -1, FALSE, <<>>)
    /\ UNCHANGED <<operations, next_id>>

\* MemoryManager.__init__: the fields of the engine that takes the place of
\* the one before.
Constructed(tech, msize, psize, alg) ==
    /\ technique' = tech
    /\ memory_size' = msize
    /\ page_size' = psize
    /\ algorithm' = alg
    /\ total_frames' = msize \div psize
    /\ memory' = [f \in 0 .. ((msize \div psize) - 1) |-> FreeFrame]
    /\ page_table' = <<>>
    /\ page_queue' = <<>>
    /\ page_access_time' = <<>>
    /\ page_faults' = 0
    /\ memory_accesses' = 0
    /\ page_hits' = 0
    /\ operations' = <<>>
    /\ next_id' = 1

\* MemoryManager(...): the new engine, observed by its caller.
Construct(tech, msize, psize, alg) ==
    /\ Constructed(tech, msize, psize, alg)
    /\ last' = Called("new", msize, "ok", -1, FALSE, <<>>)

\* What a caller can tell of an engine: the outcome of the last call and
\* every field but the technique label.
Observed ==
    [last |-> last, memory_size |-> memory_size, page_size |-> page_size,
     algorithm |-> algorithm, total_frames |-> total_frames,
     memory |-> memory, page_table |-> page_table,
     page_queue |-> page_queue, page_access_time |-> page_access_time,
     page_faults |-> page_faults, memory_accesses |-> memory_accesses,
     page_hits |-> page_hits, operations |-> operations,
     next_id |-> next_id]

\* A call, the technique of the engine that served it, and what was
\* observed after it.
Driven(op, arg, tech, seen) ==
    [call |-> [op |-> op, arg |-> arg], technique |-> tech, seen |-> seen]

\* Longest sequence of calls driven through both engines.
MaxOpsQ == 4

\* One page, two pages, and more than the memory holds.
SizesQ == {PageSize, PageSize + 1, NumFrames * PageSize + 1}

\* Below zero and frame 0.
DeallocAddressesQ == {-1, 0}

\* Frame 0 and frame 2.
AccessAddressesQ == {0, 2 * PageSize}

InitQ ==
    /\ \E tech \in Techniques, alg \in Algorithms :
          NewEngine(tech, NumFrames * PageSize, PageSize, alg)
    /\ NewApp
    /\ NewTutorialManager
    /\ driven = <<Driven("new", 0, technique, Observed)>>
    /\ replayed = 0

AllocateQ ==
    /\ replayed = 0
    /\ Len(driven) <= MaxOpsQ
    /\ \E size \in SizesQ :
          /\ allocate_memory(size)
          /\ driven' = Append(driven,
                              Driven("allocate", size, technique, Observed'))
    /\ UNCHANGED <<replayed, app, tutorial>>

DeallocateQ ==
    /\ replayed = 0
    /\ Len(driven) <= MaxOpsQ
    /\ \E address \in DeallocAddressesQ :
          /\ deallocate_memory(address)
          /\ driven' = Append(driven,
                              Driven("deallocate", address, technique,
                                     Observed'))
    /\ UNCHANGED <<replayed, app, tutorial>>

AccessQ ==
    /\ replayed = 0
    /\ Len(driven) <= MaxOpsQ
    /\ \E address \in AccessAddressesQ :
          /\ access_memory(address)
          /\ driven' = Append(driven,
                              Driven("access", address, technique, Observed'))
    /\ UNCHANGED <<replayed, app, tutorial>>

\* The second engine is constructed.
TwinQ ==
    /\ replayed = 0
    /\ Construct(OtherTechnique(technique), memory_size, page_size, algorithm)
    /\ replayed' = 1
    /\ UNCHANGED <<driven, app, tutorial>>

\* The second engine repeats the next call of the sequence.
ReplayQ ==
    /\ replayed >= 1
    /\ replayed < Len(driven)
    /\ LET call == driven[replayed + 1].call
       IN  \/ call.op = "allocate" /\ allocate_memory(call.arg)
           \/ call.op = "deallocate" /\ deallocate_memory(call.arg)
           \/ call.op = "access" /\ access_memory(call.arg)
    /\ replayed' = replayed + 1
    /\ UNCHANGED <<driven, app, tutorial>>

NextQ == AllocateQ \/ DeallocateQ \/ AccessQ \/ TwinQ \/ ReplayQ

SpecQ == InitQ /\ [][NextQ]_vars

(***************************************************************************)
(* Tutorial manager: class TutorialManager of src/tutorial_manager.py.     *)
(* A dict is a function from its keys; a step keeps its 'config' and, when *)
(* it has one, its 'expected_operation' (titles and texts are left out).   *)
(***************************************************************************)
\* The empty dict {}.
EmptyDict == <<>>

\* d.get(key, default)
Get(d, key, default) == IF key \in DOMAIN d THEN d[key] ELSE default

\* Values a request carries for a size or an address: a JSON number or a
\* JSON string.
JInt(n) == [kind |-> "int", n |-> n, s |-> ""]

JStr(s) == [kind |-> "str", n |-> 0, s |-> s]

\* The strings of digits among the values used, and the integers they read as.
Decimal == [s \in {"128", "064"} |-> IF s = "128" THEN 128 ELSE 64]

\* int(v): an integer is itself, a string of digits is read (leading zeros
\* dropped), any other string raises ValueError.
IntOf(v) ==
    IF v.kind = "int" THEN [ok |-> TRUE, n |-> v.n]
    ELSE IF v.s \in DOMAIN Decimal THEN [ok |-> TRUE, n |-> Decimal[v.s]]
    ELSE [ok |-> FALSE, n |-> 0]

\* The step dicts of lines 25-240.
Shows(step_config) == [config |-> step_config]

Expects(expected_operation) ==
    [expected_operation |-> expected_operation, config |-> EmptyDict]

ExpectsWith(expected_operation, step_config) ==
    [expected_operation |-> expected_operation, config |-> step_config]

Configuration(msize, psize, tech, alg) ==
    [memory_size |-> msize, page_size |-> psize, technique |-> tech,
     algorithm |-> alg]

\* Lines 19-241: self.tutorials, tutorial id -> its steps.
tutorials ==
    [id \in {"intro", "fragmentation", "page_replacement", "optimization"} |->
       CASE id = "intro" ->
              << Shows(Configuration(512, 64, "paging", "FIFO")),
                 Expects([type |-> "allocate", size |-> 128]),
                 Expects([type |-> "access", address |-> 64]),
                 Expects([type |-> "deallocate"]),
                 Shows(EmptyDict) >>
         [] id = "fragmentation" ->
              << Shows(Configuration(1024, 128, "segmentation", "FIFO")),
                 Expects([type |-> "allocate", size |-> 256]),
                 Expects([type |-> "allocate", size |-> 128]),
                 Expects([type |-> "deallocate"]),
                 Expects([type |-> "allocate", size |-> 192]),
                 Expects([type |-> "allocate", size |-> 60]),
                 Shows(EmptyDict) >>
         [] id = "page_replacement" ->
              << Shows(Configuration(512, 64, "paging", "FIFO")),
                 ExpectsWith([type |-> "allocate", size |-> 512],
                             [algorithm |-> "FIFO"]),
                 Expects([type |-> "allocate", size |-> 128]),
                 ExpectsWith([type |-> "reset"], [algorithm |-> "LRU"]),
                 Expects([type |-> "allocate", size |-> 256]),
                 Expects([type |-> "allocate", size |-> 384]),
                 Shows(EmptyDict) >>
         [] id = "optimization" ->
              << Shows(Configuration(1024, 64, "paging", "LRU")),
                 Expects([type |-> "allocate", size |-> 60]),
                 Expects([type |-> "allocate", size |-> 64]),
                 Expects([type |-> "access", address |-> 0]),
                 Expects([type |-> "deallocate"]),
                 Expects([type |-> "allocate"]),
                 Shows(EmptyDict) >>]

\* What a call of the tutorial manager was given and returned.
Replied(op, arg, outcome, result) ==
    [op |-> op, arg |-> arg, outcome |-> outcome, address |-> -1,
     hit |-> FALSE, victims |-> <<>>, result |-> result]

\* The result of a tutorial operation that reports an error.
IsError(result) ==
    /\ "error" \in DOMAIN result
    /\ result.error = TRUE

\* The result of next_step that reports the tutorial completed.
IsCompleted(result) ==
    /\ "completed" \in DOMAIN result
    /\ result.completed = TRUE

\* Lines 300-304 (and 273-277, 322-326, 412-416).
NoTutorialActive ==
    [error |-> TRUE, message |-> "No tutorial is currently active"]

\* Lines 329-341: the dict get_current_step returns for a tutorial and step.
StepInfo(tutorial_id, step_index) ==
    [error |-> FALSE,
     tutorial_id |-> tutorial_id,
     step_index |-> step_index,
     total_steps |-> Len(tutorials[tutorial_id]),
     step |-> tutorials[tutorial_id][step_index + 1],
     is_last_step |-> step_index = Len(tutorials[tutorial_id]) - 1,
     is_first_step |-> step_index = 0]

\* start_tutorial dropping the tutorial in progress when the id is unknown.
start_tutorial_leaving(tutorial_id) ==
    IF tutorial_id \notin DOMAIN tutorials
    THEN /\ current_tutorial' = None
         /\ current_step' = 0
         /\ last' = Replied("start_tutorial", tutorial_id, "ok",
                            [error |-> TRUE, message |-> "not found"])
         /\ UNCHANGED completed_tutorials
    ELSE /\ current_tutorial' = tutorial_id
         /\ current_step' = 0
         /\ last' = Replied("start_tutorial", tutorial_id, "ok",
                            StepInfo(tutorial_id, 0))
         /\ UNCHANGED completed_tutorials

\* Lines 244-264.
start_tutorial(tutorial_id) ==
    IF tutorial_id \notin DOMAIN tutorials
    THEN /\ last' = Replied("start_tutorial", tutorial_id, "ok",
                            [error |-> TRUE, message |-> "not found"])
         /\ UNCHANGED tutorial
    ELSE /\ current_tutorial' = tutorial_id
         /\ current_step' = 0
         /\ last' = Replied("start_tutorial", tutorial_id, "ok",
                            StepInfo(tutorial_id, 0))
         /\ UNCHANGED completed_tutorials

\* next_step without line 290: below the last step it returns the step it
\* is on.
next_step_staying ==
    IF current_tutorial = None
    THEN /\ last' = Replied("next_step", None, "ok", NoTutorialActive)
         /\ UNCHANGED tutorial
    ELSE IF current_step >= Len(tutorials[current_tutorial]) - 1
    THEN /\ completed_tutorials' = completed_tutorials \cup {current_tutorial}
         /\ last' = Replied("next_step", None, "ok",
                            [completed |-> TRUE, tutorial |-> current_tutorial])
         /\ UNCHANGED <<current_tutorial, current_step>>
    ELSE /\ last' = Replied("next_step", None, "ok",
                            StepInfo(current_tutorial, current_step))
         /\ UNCHANGED tutorial

\* Lines 266-291.
next_step ==
    IF current_tutorial = None
    THEN /\ last' = Replied("next_step", None, "ok", NoTutorialActive)
         /\ UNCHANGED tutorial
    ELSE IF current_step >= Len(tutorials[current_tutorial]) - 1
    THEN /\ completed_tutorials' = completed_tutorials \cup {current_tutorial}
         /\ last' = Replied("next_step", None, "ok",
                            [completed |-> TRUE, tutorial |-> current_tutorial])
         /\ UNCHANGED <<current_tutorial, current_step>>
    ELSE /\ current_step' = current_step + 1
         /\ last' = Replied("next_step", None, "ok",
                            StepInfo(current_tutorial, current_step + 1))
         /\ UNCHANGED <<current_tutorial, completed_tutorials>>

\* Lines 293-313.
previous_step ==
    IF current_tutorial = None
    THEN /\ last' = Replied("previous_step", None, "ok", NoTutorialActive)
         /\ UNCHANGED tutorial
    ELSE IF current_step <= 0
    THEN /\ last' = Replied("previous_step", None, "ok",
                            [error |-> TRUE,
                             message |-> "Already at the first step"])
         /\ UNCHANGED tutorial
    ELSE /\ current_step' = current_step - 1
         /\ last' = Replied("previous_step", None, "ok",
                            StepInfo(current_tutorial, current_step - 1))
         /\ UNCHANGED <<current_tutorial, completed_tutorials>>

\* Lines 315-341.
get_current_step ==
    /\ last' = Replied("get_current_step", None, "ok",
                       IF current_tutorial = None
                       THEN NoTutorialActive
                       ELSE StepInfo(current_tutorial, current_step))
    /\ UNCHANGED tutorial

\* end_tutorial marking the tutorial it ends as completed.
end_tutorial_completing ==
    IF current_tutorial = None
    THEN /\ last' = Replied("end_tutorial", None, "ok", NoTutorialActive)
         /\ UNCHANGED tutorial
    ELSE /\ current_tutorial' = None
         /\ current_step' = 0
         /\ completed_tutorials' = completed_tutorials \cup {current_tutorial}
         /\ last' = Replied("end_tutorial", None, "ok",
                            [error |-> FALSE, message |-> "Tutorial ended",
                             tutorial_id |-> current_tutorial])

\* end_tutorial without line 420: the step reached is kept.
end_tutorial_keeping_step ==
    IF current_tutorial = None
    THEN /\ last' = Replied("end_tutorial", None, "ok", NoTutorialActive)
         /\ UNCHANGED tutorial
    ELSE /\ current_tutorial' = None
         /\ last' = Replied("end_tutorial", None, "ok",
                            [error |-> FALSE, message |-> "Tutorial ended",
                             tutorial_id |-> current_tutorial])
         /\ UNCHANGED <<current_step, completed_tutorials>>

\* Lines 405-427.
end_tutorial ==
    IF current_tutorial = None
    THEN /\ last' = Replied("end_tutorial", None, "ok", NoTutorialActive)
         /\ UNCHANGED tutorial
    ELSE /\ current_tutorial' = None
         /\ current_step' = 0
         /\ last' = Replied("end_tutorial", None, "ok",
                            [error |-> FALSE, message |-> "Tutorial ended",
                             tutorial_id |-> current_tutorial])
         /\ UNCHANGED completed_tutorials

\* The tutorials in the order of the dict (lines 19-240).
TutorialOrder == <<"intro", "fragmentation", "page_replacement", "optimization">>

\* Lines 386-403: the list of tutorials with their completion status.
get_tutorial_list ==
    /\ last' = Replied("get_tutorial_list", None, "ok",
                       [i \in DOMAIN TutorialOrder |->
                          [id |-> TutorialOrder[i],
                           completed |->
                              TutorialOrder[i] \in completed_tutorials]])
    /\ UNCHANGED tutorial

\* What a comparison of verify_step_completed comes to: its value, or the
\* ValueError of int().
Compared(ok, result) == [ok |-> ok, result |-> result]

\* SameSize taking an allocate of any size.
AnySize(operation_data, expected) == Compared(TRUE, TRUE)

\* Line 377: int(operation_data.get('size', 0)) == int(expected['size'])
\* (the expected sizes are integers).
SameSize(operation_data, expected) ==
    LET size == IntOf(Get(operation_data, "size", JInt(0)))
    IN  Compared(size.ok, size.ok /\ size.n = expected.size)

\* Line 381: int(operation_data.get('address', -1)) == int(expected['address'])
SameAddress(operation_data, expected) ==
    LET address == IntOf(Get(operation_data, "address", JInt(-1)))
    IN  Compared(address.ok, address.ok /\ address.n = expected.address)

\* ResetPerformed taking any operation for the reset.
ResetIgnored(operation_data) == TRUE

\* Line 366: operation_data.get('type') == 'reset'
ResetPerformed(operation_data) == Get(operation_data, "type", None) = "reset"

\* Lines 353-384: what verify_step_completed returns.
Verdict(operation_data) ==
    IF current_tutorial = None
    THEN Compared(TRUE, FALSE)
    ELSE
    LET step == tutorials[current_tutorial][current_step + 1]
    IN
    IF "expected_operation" \notin DOMAIN step
    THEN Compared(TRUE, TRUE)
    ELSE
    LET expected == step.expected_operation
    IN
    IF Get(expected, "type", None) = "reset"
    THEN Compared(TRUE, ResetPerformed(operation_data))
    ELSE IF Get(expected, "type", None) # Get(operation_data, "type", None)
    THEN Compared(TRUE, FALSE)
    ELSE IF Get(expected, "type", None) = "allocate"
            /\ "size" \in DOMAIN expected
    THEN SameSize(operation_data, expected)
    ELSE IF Get(expected, "type", None) = "access"
            /\ "address" \in DOMAIN expected
    THEN SameAddress(operation_data, expected)
    ELSE IF Get(expected, "type", None) = "deallocate"
    THEN Compared(TRUE, TRUE)
    ELSE Compared(TRUE, FALSE)

\* Lines 343-384.
verify_step_completed(operation_data) ==
    /\ last' = Replied("verify_step_completed", operation_data,
                       IF Verdict(operation_data).ok
                       THEN "ok" ELSE "value_error",
                       Verdict(operation_data).result)
    /\ UNCHANGED tutorial

\* The tutorial manager on its own. The ids asked for: the four tutorials
\* and one that does not exist.
TutorialIds == DOMAIN tutorials \cup {"unknown"}

\* The operations reported as performed: every type, with and without a
\* size or an address, given as a number or as a string; no type; nothing.
Performed ==
    {EmptyDict,
     [size |-> JInt(128)],
     [type |-> "allocate"],
     [type |-> "allocate", size |-> JInt(128)],
     [type |-> "allocate", size |-> JInt(60)],
     [type |-> "allocate", size |-> JStr("128")],
     [type |-> "allocate", size |-> JStr("064")],
     [type |-> "allocate", size |-> JStr("many")],
     [type |-> "access"],
     [type |-> "access", address |-> JInt(64)],
     [type |-> "access", address |-> JInt(0)],
     [type |-> "access", address |-> JStr("064")],
     [type |-> "access", address |-> JStr("first")],
     [type |-> "access", size |-> JInt(128)],
     [type |-> "deallocate"],
     [type |-> "deallocate", address |-> JInt(0)],
     [type |-> "reset"]}

\* The engine plays no part; it is there and stays as it is.
InitT ==
    /\ NewEngine("paging", NumFrames * PageSize, PageSize, "FIFO")
    /\ Idle

StartTutorial ==
    /\ \E tutorial_id \in TutorialIds : start_tutorial(tutorial_id)
    /\ UNCHANGED <<engine, app, twin>>

NextStep == next_step /\ UNCHANGED <<engine, app, twin>>

PreviousStep == previous_step /\ UNCHANGED <<engine, app, twin>>

GetCurrentStep == get_current_step /\ UNCHANGED <<engine, app, twin>>

EndTutorial == end_tutorial /\ UNCHANGED <<engine, app, twin>>

VerifyStepCompleted ==
    /\ \E operation_data \in Performed :
          verify_step_completed(operation_data)
    /\ UNCHANGED <<engine, app, twin>>

GetTutorialList == get_tutorial_list /\ UNCHANGED <<engine, app, twin>>

NextT ==
    \/ StartTutorial
    \/ NextStep
    \/ PreviousStep
    \/ GetCurrentStep
    \/ EndTutorial
    \/ VerifyStepCompleted
    \/ GetTutorialList

SpecT == InitT /\ [][NextT]_vars

(***************************************************************************)
(* The simulation routes of src/app.py. Every request is served from the   *)
(* one global memory_manager, whichever client sends it.                   *)
(***************************************************************************)
Clients == {"a", "b"}

\* app.py line 53: the largest memory size start_simulation accepts.
MaxMemorySize == 4096

\* app.py line 57: the largest page size start_simulation accepts.
MaxPageSize == 512

\* app.py lines 138 and 143: the size taken when none, or none above 0, is
\* given.
DefaultSize == 64

\* A key the request does not carry (data.get(key) is None).
JNone == [kind |-> "none", n |-> 0, s |-> ""]

\* The dict get_current_state returns (memory_manager.py lines 396-408).
StateRecord ==
    [technique |-> technique,
     memory_size |-> memory_size,
     page_size |-> page_size,
     algorithm |-> algorithm,
     total_frames |-> total_frames,
     memory |-> memory,
     page_table |-> page_table,
     page_faults |-> page_faults,
     memory_accesses |-> memory_accesses,
     page_hits |-> page_hits,
     operations |-> LastOperations(operations)]

\* jsonify(...), status: the reply, and the client it goes to.
Reply(client, route, status, message, body) ==
    [client |-> client, route |-> route, status |-> status,
     message |-> message, body |-> body]

\* A request refused before it reaches the engine.
Refused(client, route, status, message) ==
    /\ response' = Reply(client, route, status, message, <<>>)
    /\ UNCHANGED <<engine, last, memory_manager, sessions>>

\* Lines 47-66: the checks of start_simulation (the parameters are integers
\* and strings as given).
ValidParameters(tech, msize, psize, alg) ==
    /\ tech \in Techniques
    /\ ~(msize <= 0 \/ msize > MaxMemorySize)
    /\ ~(psize <= 0 \/ psize > MaxPageSize)
    /\ alg \in Algorithms
    /\ msize % psize = 0

\* Lines 30-107.
api_start_simulation(client, tech, msize, psize, alg) ==
    IF ~ValidParameters(tech, msize, psize, alg)
    THEN Refused(client, "start_simulation", 400,
                 "Parameter validation error")
    ELSE /\ Construct(tech, msize, psize, alg)
         /\ memory_manager' = "MemoryManager"
         /\ sessions' = sessions \cup {client}
         /\ response' = Reply(client, "start_simulation", 200,
                              "Simulation started successfully", StateRecord')

\* The outcomes of an engine call that are a ValueError.
ValueErrors ==
    {"capacity_error", "invalid_address", "nothing_allocated",
     "no_process_id"}

\* The outcomes of an engine call that are an exception of any class.
Exceptions == ValueErrors \cup {"index_error"}

\* The reply of next_step once the engine has been called: the new state
\* (lines 227-234), the message of the branch for an exception the branch
\* catches (lines 149, 190, 214), a server error for any other (line 242).
AfterCall(client, message, caught) ==
    /\ response' = IF last'.outcome = "ok"
                   THEN Reply(client, "next_step", 200, "success",
                              StateRecord')
                   ELSE IF last'.outcome \in caught
                   THEN Reply(client, "next_step", 400, message, <<>>)
                   ELSE Reply(client, "next_step", 500, "Server error", <<>>)
    /\ UNCHANGED <<memory_manager, sessions>>

\* Lines 109-247.
api_next_step(client, operation, value) ==
    IF memory_manager = None
    THEN Refused(client, "next_step", 400, "No active simulation")
    ELSE IF operation = "allocate"
    THEN IF value.kind # "none" /\ ~IntOf(value).ok
         THEN Refused(client, "next_step", 400, "Invalid allocation size")
         ELSE LET size == IF value.kind = "none" \/ IntOf(value).n <= 0
                          THEN DefaultSize
                          ELSE IntOf(value).n
              IN  /\ allocate_memory(size)
                  /\ AfterCall(client, "Invalid allocation size", ValueErrors)
    ELSE IF operation = "deallocate"
    THEN LET allocated_frames == FramesWithStatus(memory, "allocated")
             first_allocated == value.kind = "none" \/ ~IntOf(value).ok
         IN  IF first_allocated /\ allocated_frames = <<>>
             THEN Refused(client, "next_step", 400,
                          "No memory allocated to deallocate")
             ELSE LET address == IF first_allocated
                                 THEN allocated_frames[1] * page_size
                                 ELSE IntOf(value).n
                  IN  /\ deallocate_memory(address)
                      /\ AfterCall(client, "Deallocation error", Exceptions)
    ELSE IF operation = "access"
    THEN LET address == IF value.kind = "none" \/ ~IntOf(value).ok
                        THEN 0
                        ELSE IntOf(value).n
         IN  /\ access_memory(address)
             /\ AfterCall(client, "Memory access error", Exceptions)
    ELSE Refused(client, "next_step", 400, "Unknown operation")

\* Lines 249-265.
api_get_results(client) ==
    IF memory_manager = None
    THEN Refused(client, "get_results", 400, "No active simulation")
    ELSE /\ get_results
         /\ response' = Reply(client, "get_results", 200, "success",
                              last'.result)
         /\ UNCHANGED <<memory_manager, sessions>>

\* Lines 267-277: the global is set to None; the engine it referred to is
\* left to the garbage collector.
api_reset_simulation(client) ==
    /\ memory_manager' = None
    /\ sessions' = sessions \ {client}
    /\ response' = Reply(client, "reset_simulation", 200,
                         "Simulation reset successfully", <<>>)
    /\ UNCHANGED <<engine, last>>

\* Longest operation log of one simulation.
MaxOpsS == 3

\* The parameters sent to start_simulation: an unknown technique and
\* algorithm, no memory, a whole number of pages, one byte more, too much
\* memory, and no page size.
TechniquesS == {"paging", "swapping"}

AlgorithmsS == {"FIFO", "LRU", "OPT"}

MemorySizesS ==
    {0, NumFrames * PageSize, NumFrames * PageSize + 1, MaxMemorySize + 1}

PageSizesS == {0, PageSize}

\* Sizes sent to next_step: none, zero, one page, not a number.
SizesS == {JNone, JInt(0), JInt(PageSize), JStr("many")}

\* Addresses sent to next_step: none, below zero, frame 0, frame 1.
AddressesS == {JNone, JInt(-1), JInt(0), JInt(PageSize)}

\* The application has been loaded; the engine variables describe the
\* engine the global refers to once there is one.
InitS ==
    /\ NewEngine(None, 0, PageSize, None)
    /\ Idle

StartSimulation ==
    /\ \E client \in Clients, tech \in TechniquesS, msize \in MemorySizesS,
          psize \in PageSizesS, alg \in AlgorithmsS :
           api_start_simulation(client, tech, msize, psize, alg)
    /\ UNCHANGED <<tutorial, twin>>

StepAllocate ==
    /\ Len(operations) < MaxOpsS
    /\ \E client \in Clients, size \in SizesS :
          api_next_step(client, "allocate", size)
    /\ UNCHANGED <<tutorial, twin>>

StepDeallocate ==
    /\ Len(operations) < MaxOpsS
    /\ \E client \in Clients, address \in AddressesS :
          api_next_step(client, "deallocate", address)
    /\ UNCHANGED <<tutorial, twin>>

StepAccess ==
    /\ Len(operations) < MaxOpsS
    /\ \E client \in Clients, address \in AddressesS :
          api_next_step(client, "access", address)
    /\ UNCHANGED <<tutorial, twin>>

StepUnknown ==
    /\ \E client \in Clients : api_next_step(client, "compact", JNone)
    /\ UNCHANGED <<tutorial, twin>>

GetResults ==
    /\ \E client \in Clients : api_get_results(client)
    /\ UNCHANGED <<tutorial, twin>>

ResetSimulation ==
    /\ \E client \in Clients : api_reset_simulation(client)
    /\ UNCHANGED <<tutorial, twin>>

NextS ==
    \/ StartSimulation
    \/ StepAllocate
    \/ StepDeallocate
    \/ StepAccess
    \/ StepUnknown
    \/ GetResults
    \/ ResetSimulation

SpecS == InitS /\ [][NextS]_vars

(***************************************************************************)
(* The tutorial routes of src/app.py: the global tutorial_manager, and the *)
(* global memory_manager that a step with a configuration replaces.        *)
(***************************************************************************)
\* MemoryManager(technique=config.get('technique', 'paging'), ...) of lines
\* 327-332, 393-398 and 435-440.
ConfiguredEngine(step_config) ==
    /\ Constructed(Get(step_config, "technique", "paging"),
                   Get(step_config, "memory_size", 1024),
                   Get(step_config, "page_size", 64),
                   Get(step_config, "algorithm", "FIFO"))
    /\ memory_manager' = "MemoryManager"

\* A reply of a tutorial route, kept with the data of the request it
\* answers.
TutorialReply(client, route, data, status, message, body) ==
    Reply(client, route, status, message, body) @@ [data |-> data]

\* The reply carrying a tutorial step: with the state of the engine the
\* step configures when renew holds for its configuration, without it and
\* with the engine left alone otherwise.
StepReply(client, route, data, step_data, renew) ==
    IF step_data.step.config # EmptyDict /\ renew
    THEN /\ ConfiguredEngine(step_data.step.config)
         /\ response' = TutorialReply(client, route, data, 200, "success",
                                      [tutorial_step |-> step_data,
                                       memory_state |-> StateRecord'])
    ELSE /\ response' = TutorialReply(client, route, data, 200, "success",
                                      [tutorial_step |-> step_data])
         /\ UNCHANGED <<engine, memory_manager>>

\* A tutorial request answered with an error.
TutorialError(client, route, data, status, message) ==
    /\ response' = TutorialReply(client, route, data, status, message, <<>>)
    /\ UNCHANGED <<engine, memory_manager>>

\* Lines 297-349.
api_start_tutorial(client, tutorial_id) ==
    /\ start_tutorial(tutorial_id)
    /\ IF IsError(last'.result)
       THEN TutorialError(client, "tutorials/start", tutorial_id, 404,
                          last'.result.message)
       ELSE StepReply(client, "tutorials/start", tutorial_id, last'.result,
                      {"memory_size", "page_size"} \subseteq
                          DOMAIN last'.result.step.config)
    /\ UNCHANGED sessions

\* Lines 351-413: the step is verified only when the request carries
\* operation data that is not empty.
api_tutorial_next_step(client, operation_data) ==
    /\ IF operation_data # EmptyDict /\ ~Verdict(operation_data).ok
       THEN \* the ValueError of int() reaches the handler of line 407
            /\ verify_step_completed(operation_data)
            /\ TutorialError(client, "tutorials/next", operation_data, 500,
                             "Failed to advance tutorial")
       ELSE IF operation_data # EmptyDict /\ ~Verdict(operation_data).result
       THEN /\ verify_step_completed(operation_data)
            /\ TutorialError(client, "tutorials/next", operation_data, 400,
                             "Please complete the current step's task")
       ELSE /\ next_step
            /\ IF IsError(last'.result)
               THEN TutorialError(client, "tutorials/next", operation_data,
                                  400, last'.result.message)
               ELSE IF IsCompleted(last'.result)
               THEN /\ response' = TutorialReply(client, "tutorials/next",
                                                 operation_data, 200,
                                                 "completed", <<>>)
                    /\ UNCHANGED <<engine, memory_manager>>
               ELSE StepReply(client, "tutorials/next", operation_data,
                              last'.result,
                              "technique" \in
                                  DOMAIN last'.result.step.config)
    /\ UNCHANGED sessions

\* Lines 415-456.
api_tutorial_previous_step(client) ==
    /\ previous_step
    /\ IF IsError(last'.result)
       THEN TutorialError(client, "tutorials/previous", EmptyDict, 400,
                          last'.result.message)
       ELSE StepReply(client, "tutorials/previous", EmptyDict, last'.result,
                      \/ "memory_size" \in DOMAIN last'.result.step.config
                      \/ "technique" \in DOMAIN last'.result.step.config)
    /\ UNCHANGED sessions

\* Lines 458-483.
api_end_tutorial(client) ==
    /\ end_tutorial
    /\ IF IsError(last'.result)
       THEN TutorialError(client, "tutorials/end", EmptyDict, 400,
                          last'.result.message)
       ELSE /\ response' = TutorialReply(client, "tutorials/end", EmptyDict,
                                         200, "Tutorial ended successfully",
                                         [tutorial_id |->
                                             last'.result.tutorial_id])
            /\ UNCHANGED <<engine, memory_manager>>
    /\ UNCHANGED sessions

\* The operation data sent with a request to advance: none, and operations
\* of every type with and without the size or address some step expects.
PerformedU ==
    {EmptyDict,
     [type |-> "allocate"],
     [type |-> "allocate", size |-> JInt(128)],
     [type |-> "allocate", size |-> JInt(60)],
     [type |-> "allocate", size |-> JStr("many")],
     [type |-> "access", address |-> JInt(64)],
     [type |-> "deallocate"],
     [type |-> "reset"]}

InitU ==
    /\ NewEngine(None, 0, PageSize, None)
    /\ Idle

StartTutorialU ==
    /\ \E client \in Clients, tutorial_id \in TutorialIds :
          api_start_tutorial(client, tutorial_id)
    /\ UNCHANGED twin

TutorialNextStep ==
    /\ \E client \in Clients, operation_data \in PerformedU :
          api_tutorial_next_step(client, operation_data)
    /\ UNCHANGED twin

TutorialPreviousStep ==
    /\ \E client \in Clients : api_tutorial_previous_step(client)
    /\ UNCHANGED twin

EndTutorialU ==
    /\ \E client \in Clients : api_end_tutorial(client)
    /\ UNCHANGED twin

NextU ==
    \/ StartTutorialU
    \/ TutorialNextStep
    \/ TutorialPreviousStep
    \/ EndTutorialU

SpecU == InitU /\ [][NextU]_vars

(***************************************************************************)
(* Properties                                                              *)
(***************************************************************************)
AllocatedSet(mem) == {f \in DOMAIN mem : mem[f].status = "allocated"}

FreeSet(mem) == {f \in DOMAIN mem : mem[f].status = "free"}

\* The (owner, frame) pairs of the allocated frames.
AllocatedPairs(mem) == {<<mem[f].id, f>> : f \in AllocatedSet(mem)}

\* The places (owner, position) of the page table that list frame f.
TablePlaces(table, f) ==
    {<<p, i>> \in (DOMAIN table) \X (1 .. Cardinality(DOMAIN memory)) :
        i <= Len(table[p]) /\ table[p][i] = f}

\* C1: the allocated frames are exactly the frames the page table lists:
\* every allocated frame is listed once, by one owner, which is the frame's
\* owner id, and no page-table entry lists a free frame.
C1_PageTableMatchesFrames ==
    /\ \A f \in AllocatedSet(memory) :
          /\ Cardinality(TablePlaces(page_table, f)) = 1
          /\ \A pl \in TablePlaces(page_table, f) : pl[1] = memory[f].id
    /\ \A p \in DOMAIN page_table :
          \A i \in 1 .. Len(page_table[p]) :
              /\ page_table[p][i] \in AllocatedSet(memory)
              /\ memory[page_table[p][i]].id = p
    /\ AllocatedSet(memory) =
          UNION {SeqToSet(page_table[p]) : p \in DOMAIN page_table}

\* An allocate has just evicted part of a multi-frame owner, which keeps the
\* rest, and another owner holds frames too.
C1_Witness ==
    /\ last.op = "allocate"
    /\ last.victims # <<>>
    /\ \E p \in DOMAIN page_table :
          /\ p = last.victims[1][1]
          /\ page_table[p] # <<>>
    /\ Cardinality(DOMAIN page_table) >= 2

\* C2: the replacement metadata of the configured algorithm holds exactly
\* the (owner, frame) pairs of the allocated frames, and the FIFO queue
\* holds no pair twice.
C2_MetadataMatchesFrames ==
    /\ algorithm = "FIFO" =>
          /\ SeqToSet(page_queue) = AllocatedPairs(memory)
          /\ Cardinality(SeqToSet(page_queue)) = Len(page_queue)
    /\ algorithm = "LRU" =>
          /\ DictKeys(page_access_time) = AllocatedPairs(memory)
          /\ Cardinality(DictKeys(page_access_time)) = Len(page_access_time)

\* Frames were evicted, an owner was deallocated and an access faulted a
\* frame in, and frames are still allocated.
C2_Witness ==
    /\ page_faults > memory_accesses
    /\ memory_accesses > page_hits
    /\ last.op = "deallocate" /\ last.outcome = "ok"
    /\ AllocatedSet(memory) # {}

\* The step is a call of op that returned normally (every such call appends
\* one record to the log and leaves its description in last').
Returned(op) ==
    /\ Len(operations') = Len(operations) + 1
    /\ last'.op = op
    /\ last'.outcome = "ok"

\* Owner ids are handed out in allocation order (lines 82-83 and 365-366),
\* and one allocation takes its frames in ascending order (line 87): the
\* pair a became allocated before the pair b.
AllocatedBefore(a, b) == a[1] < b[1] \/ (a[1] = b[1] /\ a[2] < b[2])

\* The k earliest-allocated pairs of the set S, earliest first.
RECURSIVE Earliest(_, _)
Earliest(S, k) ==
    IF k = 0 \/ S = {}
    THEN <<>>
    ELSE LET a == CHOOSE x \in S : \A y \in S \ {x} : AllocatedBefore(x, y)
         IN  <<a>> \o Earliest(S \ {a}, k - 1)

\* The log is that of single-frame allocations only, n of them.
SingleFrameAllocations(log, n) ==
    /\ Len(log) = n
    /\ \A i \in 1 .. n : log[i].type = "allocate" /\ Len(log[i].frames) = 1

\* C3: under FIFO the victims of an allocate are the pairs that became
\* allocated earliest, in that order; and on four frames filled by the
\* single-frame owners A, B, C, D in that order, one more single-frame
\* allocate evicts A's frame and nothing else.
C3_FIFOEvictsEarliest ==
    [][(algorithm = "FIFO" /\ Returned("allocate")) =>
          /\ last'.victims =
                Earliest(AllocatedPairs(memory), Len(last'.victims))
          /\ (total_frames = 4 /\ SingleFrameAllocations(operations, 4)
              /\ Len(operations'[5].frames) = 1) =>
                last'.victims = <<<<operations[1].process_id,
                                    operations[1].frames[1]>>>>
       ]_vars

\* The fifth single-frame allocation on four frames has evicted the frame of
\* the first owner.
C3_Witness ==
    /\ algorithm = "FIFO"
    /\ total_frames = 4
    /\ SingleFrameAllocations(operations, 5)
    /\ last.victims = <<<<1, 0>>>>
    /\ memory[0].id = 5

\* The timestamp the dictionary d holds for key.
TimeOf(d, key) == d[CHOOSE i \in 1 .. Len(d) : d[i].key = key].time

\* Each victim of the sequence has the least timestamp of d among the keys
\* that the victims before it have left.
EachLeastRecent(d, victims) ==
    \A i \in 1 .. Len(victims) :
        /\ victims[i] \in AllocatedPairs(memory)
        /\ victims[i] \in DictKeys(d)
        /\ \A key \in AllocatedPairs(memory) \ {victims[j] : j \in 1 .. (i - 1)} :
              TimeOf(d, victims[i]) <= TimeOf(d, key)

\* C4: under LRU every victim of an allocate is an allocated pair whose
\* timestamp is the least among the pairs allocated when it is chosen; and on
\* four frames filled by the single-frame owners A, B, C, D, after an access
\* to A's frame one more single-frame allocate evicts B's frame, not A's.
C4_LRUEvictsLeastRecent ==
    [][(algorithm = "LRU" /\ Returned("allocate")) =>
          /\ EachLeastRecent(page_access_time, last'.victims)
          /\ (/\ total_frames = 4
              /\ Len(operations) = 5
              /\ SingleFrameAllocations(SubSeq(operations, 1, 4), 4)
              /\ operations[5].type = "access"
              /\ FrameOf(operations[5].address) = operations[1].frames[1]
              /\ Len(operations'[6].frames) = 1) =>
                last'.victims = <<<<operations[2].process_id,
                                    operations[2].frames[1]>>>>
       ]_vars

\* A, B, C, D, the access to A's frame and the allocation that evicted B's.
C4_Witness ==
    /\ algorithm = "LRU"
    /\ total_frames = 4
    /\ Len(operations) = 6
    /\ SingleFrameAllocations(SubSeq(operations, 1, 4), 4)
    /\ operations[5].type = "access" /\ operations[5].address = 0
    /\ operations[6].type = "allocate" /\ Len(operations[6].frames) = 1
    /\ last.victims = <<<<2, 1>>>>
    /\ memory[0].id = 1
    /\ memory[1].id = 5

\* ceil(size / psize) for size >= 0, from its definition: the least n with
\* n * psize >= size.
CeilDiv(size, psize) ==
    CHOOSE n \in 0 .. size : n * psize >= size /\ (n - 1) * psize < size

\* The elements of a set of integers in ascending order.
RECURSIVE Ascending(_)
Ascending(S) ==
    IF S = {}
    THEN <<>>
    ELSE LET m == CHOOSE x \in S : \A y \in S : x <= y
         IN  <<m>> \o Ascending(S \ {m})

\* The frames owner holds in mem.
FramesOf(mem, owner) ==
    {f \in DOMAIN mem : mem[f].status = "allocated" /\ mem[f].id = owner}

\* C5: allocate(size) with ceil(size / page_size) > total_frames fails with
\* the capacity error and changes nothing of the engine: frames, page table,
\* replacement metadata, counters, next id and operation log.
C5_CapacityRejection ==
    [][(last'.op = "allocate"
        /\ CeilDiv(last'.arg, page_size) > total_frames) =>
          /\ last'.outcome = "capacity_error"
          /\ UNCHANGED engine
       ]_vars

\* An over-sized allocate was refused on an engine that holds allocations.
C5_Witness ==
    /\ last.op = "allocate"
    /\ last.outcome = "capacity_error"
    /\ CeilDiv(last.arg, page_size) = total_frames + 1
    /\ AllocatedSet(memory) # {}
    /\ operations # <<>>

\* C6: a deallocate whose address lies in a frame owned by o frees every
\* frame of o, removes o from the page table and removes every
\* replacement-metadata entry of o.
C6_DeallocateWholeAllocation ==
    [][(/\ Returned("deallocate")
        /\ memory[last'.arg \div page_size].status = "allocated") =>
          LET o == memory[last'.arg \div page_size].id
          IN  /\ FramesOf(memory, o) # {}
              /\ \A f \in FramesOf(memory, o) : memory'[f] = FreeFrame
              /\ FramesOf(memory', o) = {}
              /\ o \notin DOMAIN page_table'
              /\ \A i \in 1 .. Len(page_queue') : page_queue'[i][1] # o
              /\ \A i \in 1 .. Len(page_access_time') :
                    page_access_time'[i].key[1] # o
       ]_vars

\* An owner of three frames was deallocated through the address of its
\* last frame, and the three frames are free.
C6_Witness ==
    /\ last.op = "deallocate" /\ last.outcome = "ok"
    /\ LET rec == operations[Len(operations)]
       IN  /\ Len(rec.frames) = 3
           /\ last.arg \div page_size = rec.frames[3]
           /\ \A i \in 1 .. 3 : memory[rec.frames[i]] = FreeFrame

\* C7: while the engine has performed access calls only,
\* page_hits + page_faults = memory_accesses.
C7_AccessOnlyCounters ==
    (\A i \in 1 .. Len(operations) : operations[i].type = "access") =>
        page_hits + page_faults = memory_accesses

\* Three or more accesses and nothing else, hits and faults among them.
C7_Witness ==
    /\ Len(operations) >= 3
    /\ \A i \in 1 .. Len(operations) : operations[i].type = "access"
    /\ page_hits >= 1
    /\ page_faults >= 2

\* C8: allocate(size) with size > 0 and ceil(size / page_size) <=
\* total_frames succeeds and the new owner owns exactly ceil(size / page_size)
\* frames; the evictions always cover the shortfall.
C8_AllocateSucceeds ==
    [][(/\ last'.op = "allocate"
        /\ last'.arg > 0
        /\ CeilDiv(last'.arg, page_size) <= total_frames) =>
          LET needed == CeilDiv(last'.arg, page_size)
          IN  /\ last'.outcome = "ok"
              /\ next_id' = next_id + 1
              /\ next_id \in DOMAIN page_table'
              /\ Len(page_table'[next_id]) = needed
              /\ Cardinality(FramesOf(memory', next_id)) = needed
              /\ Cardinality(FreeSet(memory)) + Len(last'.victims) >= needed
       ]_vars

\* An allocate of two pages succeeded after evicting.
C8_Witness ==
    /\ last.op = "allocate" /\ last.outcome = "ok"
    /\ last.victims # <<>>
    /\ Len(page_table[next_id - 1]) = 2

\* C9: an allocate evicts exactly max(0, pages_needed - free_count) frames,
\* all of them allocated before and no frame twice; every other allocated
\* frame is untouched; each victim leaves its owner (the frame is free or
\* already given to the new owner), is dropped from its owner's page-table
\* sequence, an emptied owner entry is deleted, and page_faults grows by one
\* per victim.
C9_EvictsExactlyShortfall ==
    [][Returned("allocate") =>
          LET needed == CeilDiv(last'.arg, page_size)
              V == last'.victims
              VF == {V[i][2] : i \in 1 .. Len(V)}
          IN  /\ Len(V) = Max(0, needed - Cardinality(FreeSet(memory)))
              /\ Cardinality(VF) = Len(V)
              /\ SeqToSet(V) \subseteq AllocatedPairs(memory)
              /\ page_faults' = page_faults + Len(V)
              /\ \A f \in AllocatedSet(memory) \ VF : memory'[f] = memory[f]
              /\ \A f \in VF :
                    memory'[f] \in {FreeFrame, AllocatedFrame(next_id)}
              /\ \A p \in DOMAIN page_table :
                    LET rest == SelectSeq(page_table[p], LAMBDA f : f \notin VF)
                    IN  IF rest = <<>>
                        THEN p \notin DOMAIN page_table'
                        ELSE /\ p \in DOMAIN page_table'
                             /\ page_table'[p] = rest
       ]_vars

\* An allocate evicted two frames: one owner lost its entry, another kept
\* a shortened one.
C9_Witness ==
    /\ last.op = "allocate" /\ last.outcome = "ok"
    /\ Len(last.victims) = 2
    /\ last.victims[1][1] \notin DOMAIN page_table
    /\ last.victims[2][1] \in DOMAIN page_table
    /\ page_faults >= 2

\* C10: a successful allocate gives the new owner the pages_needed lowest
\* frames among those free after the evictions, in ascending order, and
\* returns the lowest of them times page_size, a multiple of page_size in
\* [0, memory_size).
C10_LowestFreeFrames ==
    [][Returned("allocate") =>
          LET needed == CeilDiv(last'.arg, page_size)
              V == last'.victims
              available == FreeSet(memory) \cup {V[i][2] : i \in 1 .. Len(V)}
              chosen == SubSeq(Ascending(available), 1, needed)
          IN  /\ Cardinality(available) >= needed
              /\ page_table'[next_id] = chosen
              /\ FramesOf(memory', next_id) = SeqToSet(chosen)
              /\ last'.address = chosen[1] * page_size
              /\ last'.address % page_size = 0
              /\ 0 <= last'.address /\ last'.address < memory_size
       ]_vars

\* An allocate that evicted returned an address above the first frame.
C10_Witness ==
    /\ last.op = "allocate" /\ last.outcome = "ok"
    /\ last.victims # <<>>
    /\ last.address > 0

\* The owner ids of the allocated frames of mem.
OwnersOf(mem) == {mem[f].id : f \in AllocatedSet(mem)}

\* Every owner id the engine state mentions: in the frames, the page table,
\* the replacement metadata and the allocate and deallocate records.
IdsKnown ==
    OwnersOf(memory) \cup DOMAIN page_table
    \cup {page_queue[i][1] : i \in 1 .. Len(page_queue)}
    \cup {page_access_time[i].key[1] : i \in 1 .. Len(page_access_time)}
    \cup {operations[i].process_id :
            i \in {j \in 1 .. Len(operations) :
                      operations[j].type \in {"allocate", "deallocate"}}}

\* The step gave frames to a new owner: an allocate that returned, or an
\* access that faulted.
AssignsOwner ==
    \/ Returned("allocate")
    \/ Returned("access") /\ ~last'.hit

\* C11: the id counter starts at 1; every allocation, the single-frame ones
\* of access faults included, takes the counter's value as the new owner id
\* and moves the counter up by one, and nothing else moves it; every id the
\* engine has handed out is below the counter, so no id is assigned twice.
C11_OwnerIdsNeverReused ==
    [][/\ operations = <<>> => next_id = 1
       /\ \A id \in IdsKnown : 1 <= id /\ id < next_id
       /\ \A id \in IdsKnown' : 1 <= id /\ id < next_id'
       /\ AssignsOwner =>
             /\ next_id' = next_id + 1
             /\ OwnersOf(memory') \ OwnersOf(memory) = {next_id}
             /\ next_id \notin IdsKnown
       /\ ~AssignsOwner =>
             /\ next_id' = next_id
             /\ OwnersOf(memory') \subseteq OwnersOf(memory)
      ]_vars

\* After a deallocation and an access fault, an allocate took a frame that
\* an earlier owner had held, under a larger id.
C11_Witness ==
    /\ last.op = "allocate" /\ last.outcome = "ok"
    /\ \E i \in 1 .. Len(operations) : operations[i].type = "deallocate"
    /\ \E i \in 1 .. Len(operations) :
          /\ operations[i].type = "access"
          /\ operations[i].result = "fault"
    /\ memory[0].id = next_id - 1
    /\ next_id = 4

\* The frame an access to address resolves to: address / page_size rounded
\* down, brought to 0 from below and to total_frames - 1 from above.
Resolved(address) ==
    LET f == address \div page_size
    IN  IF f < 0 THEN 0
        ELSE IF f > total_frames - 1 THEN total_frames - 1
        ELSE f

\* C12: an access ends normally for every address, with a boolean result;
\* a frame number below 0 counts as frame 0 and one at or above total_frames
\* as frame total_frames - 1: the result is a hit exactly when that frame
\* was allocated, the frame is allocated afterwards, and the log keeps the
\* address as given.
C12_AccessNeverFails ==
    [][last'.op = "access" =>
          /\ last'.outcome = "ok"
          /\ last'.hit \in BOOLEAN
          /\ Resolved(last'.arg) \in Frames
          /\ last'.hit = (memory[Resolved(last'.arg)].status = "allocated")
          /\ memory'[Resolved(last'.arg)].status = "allocated"
          /\ \A f \in Frames \ {Resolved(last'.arg)} : memory'[f] = memory[f]
          /\ Len(operations') = Len(operations) + 1
          /\ operations'[Len(operations')].address = last'.arg
      ]_vars

\* An access beyond the memory faulted the last frame in while frame 0 was
\* allocated and an access below zero had hit it.
C12_Witness ==
    /\ last.op = "access" /\ last.outcome = "ok"
    /\ last.arg \div page_size >= total_frames
    /\ ~last.hit
    /\ memory[total_frames - 1].id = next_id - 1
    /\ \E i \in 1 .. Len(operations) :
          /\ operations[i].type = "access"
          /\ operations[i].address < 0
          /\ operations[i].result = "hit"

\* C13: every access adds one to memory_accesses and appends one record;
\* when the resolved frame was allocated it adds one to page_hits, leaves
\* page_faults, logs "hit" and returns true; otherwise it adds one to
\* page_faults, leaves page_hits, logs "fault" and returns false.
C13_AccessCounts ==
    [][last'.op = "access" =>
          /\ memory_accesses' = memory_accesses + 1
          /\ IF memory[Resolved(last'.arg)].status = "allocated"
             THEN /\ page_hits' = page_hits + 1
                  /\ page_faults' = page_faults
                  /\ operations' = Append(operations,
                         [type |-> "access", address |-> last'.arg,
                          result |-> "hit"])
                  /\ last'.hit = TRUE
             ELSE /\ page_faults' = page_faults + 1
                  /\ page_hits' = page_hits
                  /\ operations' = Append(operations,
                         [type |-> "access", address |-> last'.arg,
                          result |-> "fault"])
                  /\ last'.hit = FALSE
      ]_vars

\* A hit after faults, hits and an eviction.
C13_Witness ==
    /\ last.op = "access" /\ last.hit
    /\ page_hits >= 2
    /\ page_faults > memory_accesses - page_hits
    /\ memory_accesses > page_hits

\* The replacement metadata of the configured algorithm, as a sequence.
Metadata == IF algorithm = "FIFO" THEN page_queue ELSE page_access_time

\* C14: a faulting access gives the resolved frame, and no other, to the
\* owner id taken from the counter, with a page-table entry of that one
\* frame and one new replacement-metadata entry; no access frees a frame or
\* changes the owner of an allocated one.
C14_FaultAllocatesOneFrame ==
    [][last'.op = "access" =>
          LET f == Resolved(last'.arg)
          IN  /\ \A g \in AllocatedSet(memory) : memory'[g] = memory[g]
              /\ \A p \in DOMAIN page_table :
                    p \in DOMAIN page_table' /\ page_table'[p] = page_table[p]
              /\ ~last'.hit =>
                    /\ memory[f] = FreeFrame
                    /\ memory' = [memory EXCEPT
                                     ![f] = AllocatedFrame(next_id)]
                    /\ next_id \notin IdsKnown
                    /\ next_id' = next_id + 1
                    /\ DOMAIN page_table' = DOMAIN page_table \cup {next_id}
                    /\ page_table'[next_id] = <<f>>
                    /\ algorithm = "FIFO" =>
                          page_queue' = Append(page_queue, <<next_id, f>>)
                    /\ algorithm = "LRU" =>
                          page_access_time' =
                             Append(page_access_time,
                                    [key |-> <<next_id, f>>,
                                     time |-> memory_accesses'])
              /\ last'.hit =>
                    /\ memory' = memory
                    /\ page_table' = page_table
                    /\ page_queue' = page_queue
                    /\ next_id' = next_id
      ]_vars

\* An access faulted a frame in between two frames held by other owners.
C14_Witness ==
    /\ last.op = "access" /\ ~last.hit
    /\ Len(Metadata) = 3
    /\ Cardinality(DOMAIN page_table) = 3
    /\ memory[1].id = next_id - 1
    /\ page_table[next_id - 1] = <<1>>

\* C15: a deallocate whose address / page_size (rounded down) lies outside
\* [0, total_frames) fails with the invalid-address error, whatever is
\* allocated, and changes nothing of the engine.
C15_DeallocateOutOfBounds ==
    [][(/\ last'.op = "deallocate"
        /\ \/ last'.arg \div page_size < 0
           \/ last'.arg \div page_size >= total_frames) =>
          /\ last'.outcome = "invalid_address"
          /\ UNCHANGED engine
      ]_vars

\* A deallocate below address 0 was refused while frames were allocated.
C15_Witness ==
    /\ last.op = "deallocate"
    /\ last.outcome = "invalid_address"
    /\ last.arg < 0
    /\ Cardinality(AllocatedSet(memory)) >= 2

\* The least element of a non-empty set of integers.
Least(S) == CHOOSE x \in S : \A y \in S : x <= y

\* C16: a deallocate at an in-bounds address whose frame is free fails with
\* the nothing-allocated error and changes nothing when no frame is
\* allocated; otherwise it deallocates the owner of the lowest allocated
\* frame and logs that frame's base address, not the address given. No
\* other deallocate fails with the nothing-allocated error.
C16_DeallocateFallback ==
    [][last'.op = "deallocate" =>
          /\ last'.outcome = "nothing_allocated" =>
                /\ AllocatedSet(memory) = {}
                /\ last'.arg \div page_size \in Frames
          /\ (/\ last'.arg \div page_size \in Frames
              /\ memory[last'.arg \div page_size].status = "free") =>
                IF AllocatedSet(memory) = {}
                THEN /\ last'.outcome = "nothing_allocated"
                     /\ UNCHANGED engine
                ELSE LET g == Least(AllocatedSet(memory))
                         o == memory[g].id
                     IN  /\ last'.outcome = "ok"
                         /\ last'.address = g * page_size
                         /\ \A f \in Frames :
                               memory'[f] = IF f \in FramesOf(memory, o)
                                            THEN FreeFrame
                                            ELSE memory[f]
                         /\ o \notin DOMAIN page_table'
                         /\ operations' = Append(operations,
                               [type |-> "deallocate", process_id |-> o,
                                address |-> g * page_size,
                                frames |-> page_table[o]])
      ]_vars

\* A deallocate at a free frame released the owner of a lower frame; the
\* log names that frame's address, and a higher frame stays allocated.
C16_Witness ==
    /\ last.op = "deallocate" /\ last.outcome = "ok"
    /\ LET rec == operations[Len(operations)]
       IN  /\ rec.address # last.arg
           /\ last.arg \div page_size \notin SeqToSet(rec.frames)
           /\ rec.address = rec.frames[1] * page_size
           /\ \E f \in AllocatedSet(memory) : f > rec.frames[1]

Reads == {"current_state", "results"}

\* C17: current_state() and results() change nothing of the engine, and a
\* call that follows a call of the same snapshot, with nothing in between,
\* returns what that one returned.
C17_SnapshotsArePureReads ==
    [][last'.op \in Reads =>
          /\ UNCHANGED engine
          /\ last'.outcome = "ok"
          /\ last.op = last'.op => last'.result = last.result
      ]_vars

\* A results snapshot of a full engine that has evicted and counted hits.
C17_Witness ==
    /\ last.op = "results"
    /\ Len(operations) >= 3
    /\ last.result.page_faults > last.result.memory_accesses
    /\ last.result.page_hits >= 1
    /\ last.result.allocated_frames = total_frames

\* C18: results() reports the number of allocated frames and, as
\* memory_utilization, that number divided by total_frames; on the engine
\* of memory size 256 and page size 64, after allocate(128) on the fresh
\* engine, 2 of the 4 frames are allocated and the utilization is 1/2.
C18_Utilization ==
    last.op = "results" =>
        LET n == Cardinality(AllocatedSet(memory))
            u == last.result.memory_utilization
        IN  /\ last.result.allocated_frames = n
            /\ last.result.total_frames = total_frames
            /\ u.den > 0
            /\ u.num * total_frames = n * u.den
            /\ (/\ memory_size = 256
                /\ page_size = 64
                /\ Len(operations) = 1
                /\ operations[1].type = "allocate"
                /\ operations[1].size = 128) =>
                  /\ total_frames = 4
                  /\ n = 2
                  /\ u = [num |-> 1, den |-> 2]

\* The results after allocate(128) on the fresh 256/64 engine.
C18_Witness ==
    /\ last.op = "results"
    /\ memory_size = 256 /\ page_size = 64
    /\ operations = <<[type |-> "allocate", process_id |-> 1, size |-> 128,
                       frames |-> <<0, 1>>]>>
    /\ last.result.memory_utilization = [num |-> 1, den |-> 2]

\* C19: results() reports hit_ratio 0 and miss_ratio 0 while memory_accesses
\* is 0, and otherwise page_hits / memory_accesses and page_faults /
\* memory_accesses.
C19_Ratios ==
    last.op = "results" =>
        LET h == last.result.hit_ratio
            m == last.result.miss_ratio
        IN  IF memory_accesses = 0
            THEN h = Zero /\ m = Zero
            ELSE /\ h.den > 0 /\ m.den > 0
                 /\ h.num * memory_accesses = page_hits * h.den
                 /\ m.num * memory_accesses = page_faults * m.den

\* Results with hits, faults and evictions counted: the two ratios do not
\* add up to 1.
C19_Witness ==
    /\ last.op = "results"
    /\ memory_accesses >= 2
    /\ page_hits >= 1
    /\ page_faults > memory_accesses - page_hits
    /\ last.result.hit_ratio = [num |-> 1, den |-> 2]

\* C20: every engine that exists satisfies the construction constraints:
\* technique paging or segmentation, memory_size > 0, page_size > 0,
\* memory_size a multiple of page_size, algorithm FIFO or LRU.
C20_OnlyValidConfigurations ==
    /\ technique \in {"paging", "segmentation"}
    /\ memory_size > 0
    /\ page_size > 0
    /\ memory_size % page_size = 0
    /\ algorithm \in {"FIFO", "LRU"}


\* C21: a newly constructed engine has memory_size / page_size frames
\* (rounded down; exactly that many when page_size divides memory_size), all
\* free with no owner, an empty page table, empty replacement metadata, an
\* empty operation log, the three counters at 0 and the id counter at 1.
C21_FreshEngine ==
    last.op = "new" =>
        /\ total_frames * page_size <= memory_size
        /\ memory_size < (total_frames + 1) * page_size
        /\ memory_size % page_size = 0 =>
              total_frames * page_size = memory_size
        /\ DOMAIN memory = 0 .. (total_frames - 1)
        /\ \A f \in DOMAIN memory :
              memory[f].status = "free" /\ memory[f].id = NoId
        /\ DOMAIN page_table = {}
        /\ Len(page_queue) = 0
        /\ Len(page_access_time) = 0
        /\ Len(operations) = 0
        /\ page_faults = 0 /\ memory_accesses = 0 /\ page_hits = 0
        /\ next_id = 1

\* A new FIFO engine whose memory is a whole number of pages.
C21_Witness ==
    /\ last.op = "new"
    /\ algorithm = "FIFO"
    /\ memory_size = NumFrames * PageSize
    /\ total_frames = NumFrames
    /\ \A f \in 0 .. (NumFrames - 1) : memory[f] = FreeFrame

\* C22: page_faults, memory_accesses and page_hits never decrease, whatever
\* the call: allocate, deallocate, access, the two snapshots, and the calls
\* that fail.
C22_CountersNeverDecrease ==
    [][/\ page_faults' >= page_faults
       /\ memory_accesses' >= memory_accesses
       /\ page_hits' >= page_hits
      ]_vars

\* A failing call on an engine that has counted an eviction, a hit and an
\* access.
C22_Witness ==
    /\ last.outcome \in {"capacity_error", "invalid_address"}
    /\ page_hits >= 1
    /\ memory_accesses >= 1
    /\ page_faults > memory_accesses - page_hits

\* The last min(SnapshotOps, n) of the n records of log, in their order.
Window(log) ==
    LET n == Len(log)
        k == Min(SnapshotOps, n)
    IN  [i \in 1 .. k |-> log[n - k + i]]

Mutators == {"allocate", "deallocate", "access"}

\* C23: the operation log is append-only: no step alters or removes a
\* record; an allocate, deallocate or access that succeeds appends exactly
\* one record, of its own type, at the end; a call that fails appends
\* nothing; and current_state() shows exactly the last min(10, n) of the n
\* records, in their order, without changing the log.
C23_LogAppendOnly ==
    [][/\ Len(operations') >= Len(operations)
       /\ SubSeq(operations', 1, Len(operations)) = operations
       /\ (last'.op \in Mutators /\ last'.outcome = "ok") =>
             /\ Len(operations') = Len(operations) + 1
             /\ operations'[Len(operations')].type = last'.op
       /\ last'.outcome # "ok" => operations' = operations
       /\ last'.op = "current_state" =>
             /\ operations' = operations
             /\ last'.result.operations = Window(operations)
             /\ Len(last'.result.operations) = Min(10, Len(operations))
      ]_vars

\* A snapshot of a log of 11 records of the three kinds: it shows records
\* 2 to 11.
C23_Witness ==
    /\ last.op = "current_state"
    /\ Len(operations) = 11
    /\ {operations[i].type : i \in 1 .. 11} = Mutators
    /\ Len(last.result.operations) = 10
    /\ last.result.operations[1] = operations[2]
    /\ last.result.operations[10] = operations[11]
    /\ operations[1] # operations[2]

\* The keys of the dictionary d that hold its least timestamp.
LeastRecent(d) ==
    {d[i].key : i \in {j \in 1 .. Len(d) :
                          \A k \in 1 .. Len(d) : d[j].time <= d[k].time}}

\* C24: under LRU, when several allocated frames share the least timestamp,
\* the victim is the one with the lowest frame index: the first victim of
\* an allocate is the lowest frame among the least recently used.
C24_LRUTieBreakLowestFrame ==
    [][(algorithm = "LRU" /\ Returned("allocate") /\ last'.victims # <<>>) =>
          last'.victims[1][2] =
             Least({key[2] : key \in LeastRecent(page_access_time)})
      ]_vars

\* C25: under LRU the timestamp of an (owner, frame) pair is the value of
\* memory_accesses at the later of its allocation and its last access hit:
\* a pair that enters the dictionary gets the current count (an allocate
\* does not increment it; a faulting access has incremented it), a hit
\* stores the count after its increment, and nothing else changes a
\* timestamp; so no timestamp exceeds memory_accesses.
C25_LRUTimestamps ==
    [][algorithm = "LRU" =>
          /\ \A i \in 1 .. Len(page_access_time) :
                page_access_time[i].time <= memory_accesses
          /\ \A i \in 1 .. Len(page_access_time') :
                page_access_time'[i].time <= memory_accesses'
          /\ last'.op = "allocate" => memory_accesses' = memory_accesses
          /\ \A key \in DictKeys(page_access_time') :
                IF key \notin DictKeys(page_access_time)
                THEN TimeOf(page_access_time', key) = memory_accesses'
                ELSE IF /\ last'.op = "access"
                        /\ last'.hit
                        /\ key[2] = Resolved(last'.arg)
                     THEN /\ TimeOf(page_access_time', key) =
                               memory_accesses + 1
                          /\ memory_accesses' = memory_accesses + 1
                     ELSE TimeOf(page_access_time', key) =
                             TimeOf(page_access_time, key)
      ]_vars

\* A hit has refreshed a pair allocated before any access, while another
\* pair keeps the timestamp of its allocation after the first access.
C25_Witness ==
    /\ algorithm = "LRU"
    /\ last.op = "access" /\ last.hit
    /\ memory_accesses >= 2
    /\ \E i, j \in 1 .. Len(page_access_time) :
          /\ page_access_time[i].time = memory_accesses
          /\ page_access_time[i].key[1] = 1
          /\ page_access_time[j].time = 1
          /\ page_access_time[j].key[1] = 2

\* C26: two engines of the same memory size, page size and algorithm, one
\* of technique paging and one of segmentation, driven by the same sequence
\* of allocate, deallocate and access calls, return the same results and
\* errors at every step and are in the same state but for the technique
\* label.
C26_TechniqueIsCosmetic ==
    replayed >= 1 =>
        /\ {technique, driven[1].technique} = Techniques
        /\ \A i \in 1 .. Len(driven) :
              driven[i].technique = driven[1].technique
        /\ Observed = driven[replayed].seen

\* The second engine, of technique segmentation, has repeated a sequence
\* with a refused allocate, a hit, and an allocate that evicted.
C26_Witness ==
    /\ technique = "segmentation"
    /\ replayed = Len(driven)
    /\ replayed = 5
    /\ last.op = "allocate" /\ last.victims # <<>>
    /\ \E i \in 2 .. 4 : driven[i].seen.last.outcome = "capacity_error"
    /\ page_hits = 1

\* The strings that are numerals of an integer, among the values used.
Numerals == {<<"128", 128>>, <<"064", 64>>}

\* The request value v stands for the integer n.
Denotes(v, n) ==
    \/ v.kind = "int" /\ v.n = n
    \/ v.kind = "str" /\ <<v.s, n>> \in Numerals

\* The current step of the active tutorial.
CurrentStep == tutorials[current_tutorial][current_step + 1]

\* verify_step_completed has just been called on a step that expects an
\* operation of the given type.
VerifiedExpecting(type) ==
    /\ last.op = "verify_step_completed"
    /\ current_tutorial # None
    /\ "expected_operation" \in DOMAIN CurrentStep
    /\ CurrentStep.expected_operation.type = type

\* verify_step_completed returned true.
Satisfied == last.outcome = "ok" /\ last.result = TRUE

\* verify_step_completed returned false.
Unsatisfied == last.outcome = "ok" /\ last.result = FALSE

PerformedType == Get(last.arg, "type", None)

\* C27: on a step that expects an allocate of a size, verify_step_completed
\* returns true exactly when the performed operation is an allocate whose
\* size is that size; on a step that expects an access to an address,
\* exactly when it is an access to that address; and a performed operation
\* of another type than the expected allocate or access gets false.
C27_VerifyAllocateAndAccess ==
    /\ VerifiedExpecting("allocate") =>
          LET expected == CurrentStep.expected_operation
          IN  /\ "size" \in DOMAIN expected =>
                    (Satisfied <=>
                        /\ PerformedType = "allocate"
                        /\ "size" \in DOMAIN last.arg
                        /\ Denotes(last.arg.size, expected.size))
              /\ PerformedType # "allocate" => Unsatisfied
    /\ VerifiedExpecting("access") =>
          LET expected == CurrentStep.expected_operation
          IN  /\ "address" \in DOMAIN expected =>
                    (Satisfied <=>
                        /\ PerformedType = "access"
                        /\ "address" \in DOMAIN last.arg
                        /\ Denotes(last.arg.address, expected.address))
              /\ PerformedType # "access" => Unsatisfied

\* On the step that expects allocate 128, the allocate reported with the
\* size "128" satisfied it.
C27_Witness ==
    /\ VerifiedExpecting("allocate")
    /\ CurrentStep.expected_operation.size = 128
    /\ last.arg = [type |-> "allocate", size |-> JStr("128")]
    /\ Satisfied

\* C28: verify_step_completed returns true for every performed operation
\* when the current step has no expected operation; on a step that expects
\* a deallocate it returns true for any deallocate (and for nothing else);
\* on a step that expects a reset it returns true only for a performed
\* operation of type reset (and for every such).
C28_VerifyOtherSteps ==
    /\ (/\ last.op = "verify_step_completed"
        /\ current_tutorial # None
        /\ "expected_operation" \notin DOMAIN CurrentStep) => Satisfied
    /\ VerifiedExpecting("deallocate") =>
          /\ PerformedType = "deallocate" => Satisfied
          /\ PerformedType # "deallocate" => Unsatisfied
    /\ VerifiedExpecting("reset") =>
          /\ Satisfied => PerformedType = "reset"
          /\ PerformedType = "reset" => Satisfied
          /\ PerformedType # "reset" => Unsatisfied

\* On the step that expects a reset, a deallocate did not satisfy it.
C28_Witness ==
    /\ VerifiedExpecting("reset")
    /\ PerformedType = "deallocate"
    /\ Unsatisfied


\* C29: with two sessions active at the same time, a request of one session
\* (starting, operating on or resetting it) never changes the engine the
\* other session observes.
C29_SessionsIsolated ==
    [][\A other \in Clients :
          (/\ other \in sessions
           /\ response'.client \in (sessions \cup sessions') \ {other})
          => UNCHANGED <<engine, memory_manager>>]_vars

\* The engine is as __init__ leaves it.
FreshState ==
    /\ \A f \in DOMAIN memory : memory[f] = FreeFrame
    /\ page_table = <<>>
    /\ page_queue = <<>>
    /\ page_access_time = <<>>
    /\ page_faults = 0
    /\ memory_accesses = 0
    /\ page_hits = 0
    /\ next_id = 1
    /\ operations = <<>>

\* C30: steps and results requests are refused, and change nothing, unless a
\* simulation is active; a simulation is active from a successful start to
\* the next reset; reset discards the engine; a successful start leaves a
\* fresh engine (all frames free, counters 0, next id 1, empty log) whatever
\* the simulation before it did, and replies with that state.
C30_SessionLifecycle ==
    [][/\ (response'.route \in {"next_step", "get_results"}
           /\ memory_manager = None)
          => /\ response'.status = 400
             /\ response'.message = "No active simulation"
             /\ UNCHANGED <<engine, memory_manager>>
       /\ (response'.route \in {"next_step", "get_results"}
           /\ memory_manager # None)
          => /\ response'.message # "No active simulation"
             /\ memory_manager' # None
       /\ response'.route = "reset_simulation"
          => /\ response'.status = 200
             /\ memory_manager' = None
       /\ (response'.route = "start_simulation" /\ response'.status = 200)
          => /\ memory_manager' # None
             /\ FreshState'
             /\ total_frames' = memory_size' \div page_size'
             /\ DOMAIN memory' = 0 .. (total_frames' - 1)
             /\ response'.body = StateRecord'
       /\ (response'.route = "start_simulation" /\ response'.status # 200)
          => UNCHANGED <<engine, memory_manager>>
      ]_vars

\* A simulation was started, used and reset, and the step sent after the
\* reset has been refused.
C30_Witness ==
    /\ response.route = "next_step"
    /\ response.message = "No active simulation"
    /\ memory_manager = None
    /\ operations # <<>>
    /\ next_id > 1

\* The number of frames an allocate step takes from the owner that held them:
\* allocated before the step, free or held by another owner after it.
EvictedByStep ==
    IF last'.op = "allocate"
    THEN Cardinality({f \in DOMAIN memory :
                        /\ memory[f].status = "allocated"
                        /\ memory'[f] # memory[f]})
    ELSE 0

\* C32: page_faults = (memory_accesses - page_hits) + the number of frames
\* evicted by replacement since construction: the counters start at 0 and
\* every step raises page_faults by its faulting accesses plus the frames it
\* evicts; so page_hits <= memory_accesses, and page_hits + page_faults is
\* never below memory_accesses.
C32_FaultAccounting ==
    /\ page_faults = 0 /\ memory_accesses = 0 /\ page_hits = 0
    /\ [](/\ page_hits <= memory_accesses
          /\ page_hits + page_faults >= memory_accesses)
    /\ [][page_faults' - page_faults =
            ((memory_accesses' - memory_accesses) - (page_hits' - page_hits))
            + EvictedByStep]_vars

\* An access has faulted, an access has hit and an allocate has evicted.
C32_Witness ==
    /\ page_hits > 0
    /\ memory_accesses > page_hits
    /\ page_hits + page_faults > memory_accesses
    /\ last.op = "allocate" /\ last.victims # <<>>

\* C33: after an access the frame it resolved to is allocated; an access of
\* the same address made next is a hit; and an allocated frame becomes free
\* (so that an access of it can fault again) only by a deallocate or as a
\* victim of the replacement of an allocate.
C33_AccessThenHit ==
    [][/\ Returned("access") =>
             memory'[Resolved(last'.arg)].status = "allocated"
       /\ (/\ last.op = "access" /\ last.outcome = "ok"
           /\ Returned("access")
           /\ last'.arg = last.arg)
          => last'.hit
       /\ \A f \in DOMAIN memory :
             (memory[f].status = "allocated" /\ memory'[f].status = "free")
             => \/ Returned("deallocate")
                \/ /\ last'.op = "allocate"
                   /\ \E i \in 1 .. Len(last'.victims) :
                         last'.victims[i][2] = f
      ]_vars

\* An access has faulted and the access of the same address made next has
\* hit.
C33_Witness ==
    /\ Len(operations) >= 2
    /\ LET before == operations[Len(operations) - 1]
           after == operations[Len(operations)]
       IN  /\ before.type = "access" /\ before.result = "fault"
           /\ after.type = "access" /\ after.result = "hit"
           /\ after.address = before.address
    /\ last.op = "access" /\ last.hit

\* The entries of a FIFO queue that belong to other owners, in queue order.
QueueOfOthers(queue, owner) == SelectSeq(queue, LAMBDA p : p[1] # owner)

\* The entries of the LRU timestamps that belong to other owners.
TimesOfOthers(d, owner) == SelectSeq(d, LAMBDA x : x.key[1] # owner)

\* C34: a successful deallocate leaves page_faults, memory_accesses,
\* page_hits, the id counter and the configuration as they were, appends one
\* record to the log, and touches the frames, the page-table entry and the
\* replacement metadata of the one owner it resolved: every other owner
\* keeps its frames, its page-table sequence, the order of its FIFO entries
\* and its LRU timestamps.
C34_DeallocateFrame ==
    [][Returned("deallocate") =>
          LET owner == operations'[Len(operations')].process_id
          IN  /\ UNCHANGED <<page_faults, memory_accesses, page_hits,
                             next_id, config>>
              /\ SubSeq(operations', 1, Len(operations)) = operations
              /\ operations'[Len(operations')].type = "deallocate"
              /\ DOMAIN memory' = DOMAIN memory
              /\ \A f \in DOMAIN memory :
                    memory[f].id # owner => memory'[f] = memory[f]
              /\ (DOMAIN page_table) \ {owner} \subseteq DOMAIN page_table'
              /\ DOMAIN page_table' \subseteq DOMAIN page_table
              /\ \A p \in (DOMAIN page_table) \ {owner} :
                    page_table'[p] = page_table[p]
              /\ QueueOfOthers(page_queue', owner) =
                    QueueOfOthers(page_queue, owner)
              /\ TimesOfOthers(page_access_time', owner) =
                    TimesOfOthers(page_access_time, owner)
      ]_vars

\* A deallocate has freed one owner while another owner holds a frame, with
\* its replacement metadata, and the counters are above 0.
C34_Witness ==
    /\ last.op = "deallocate" /\ last.outcome = "ok"
    /\ DOMAIN page_table # {}
    /\ page_queue # <<>> \/ page_access_time # <<>>
    /\ memory_accesses > 0
    /\ page_faults > 0

\* C35: while a tutorial is active it is one of the built-in tutorials and
\* 0 <= current_step <= (its number of steps) - 1, so that get_current_step
\* indexes inside the step list; while none is active current_step is 0.
C35_StepWithinTutorial ==
    IF current_tutorial = None
    THEN current_step = 0
    ELSE /\ current_tutorial \in DOMAIN tutorials
         /\ 0 <= current_step
         /\ current_step <= Len(tutorials[current_tutorial]) - 1
         /\ (current_step + 1) \in DOMAIN tutorials[current_tutorial]

\* get_current_step has read the last step of an active tutorial.
C35_Witness ==
    /\ current_tutorial \in DOMAIN tutorials
    /\ current_step = Len(tutorials[current_tutorial]) - 1
    /\ last.op = "get_current_step"
    /\ last.result.is_last_step
    /\ last.result.step = tutorials[current_tutorial][current_step + 1]

\* The steps after the current one in the active tutorial.
StepsLeft == (Len(tutorials[current_tutorial]) - 1) - current_step

\* C36: with a tutorial active, a next_step with steps left moves one step
\* forward and so leaves one step fewer, and a next_step with no step left
\* returns completed: the call after StepsLeft calls returns completed, which
\* is (steps - 1 - current_step) + 1 calls at most. On the last step
\* next_step changes neither current_step nor the active tutorial, so every
\* further next_step returns completed again.
C36_NextStepCompletes ==
    [][(current_tutorial # None /\ last'.op = "next_step") =>
          /\ StepsLeft >= 0
          /\ current_tutorial' = current_tutorial
          /\ IF StepsLeft = 0
             THEN /\ IsCompleted(last'.result)
                  /\ last'.result.tutorial = current_tutorial
                  /\ current_step' = current_step
             ELSE /\ ~IsCompleted(last'.result)
                  /\ current_step' = current_step + 1
                  /\ StepsLeft' = StepsLeft - 1
      ]_vars

\* next_step has been called on the last step of the longest tutorial and
\* has returned completed.
C36_Witness ==
    /\ last.op = "next_step"
    /\ IsCompleted(last.result)
    /\ current_tutorial = "fragmentation"
    /\ current_step = Len(tutorials["fragmentation"]) - 1
    /\ current_step = 6

\* C37: start_tutorial with an unknown id, previous_step at step 0, and
\* next_step, previous_step, get_current_step and end_tutorial with no
\* tutorial active each return an error; and every tutorial operation that
\* returns an error leaves current_tutorial, current_step and
\* completed_tutorials as they were.
C37_RejectedLeavesState ==
    [][/\ (last'.op = "start_tutorial" /\ last'.arg \notin DOMAIN tutorials)
          => IsError(last'.result)
       /\ (last'.op = "previous_step" /\ current_step = 0)
          => IsError(last'.result)
       /\ (/\ last'.op \in {"next_step", "previous_step",
                            "get_current_step", "end_tutorial"}
           /\ current_tutorial = None)
          => IsError(last'.result)
       /\ (/\ last'.op \in {"start_tutorial", "next_step", "previous_step",
                            "get_current_step", "end_tutorial"}
           /\ IsError(last'.result))
          => UNCHANGED tutorial
      ]_vars

\* start_tutorial with an unknown id has been refused while a tutorial was
\* in progress after its first step, with another tutorial completed.
C37_Witness ==
    /\ last.op = "start_tutorial"
    /\ last.arg \notin DOMAIN tutorials
    /\ IsError(last.result)
    /\ current_tutorial # None
    /\ current_step > 0
    /\ completed_tutorials # {}

\* C38: a tutorial enters completed_tutorials only in a next_step called
\* while it is the active tutorial and on its last step, so that ending or
\* restarting it before marks nothing; no operation removes a tutorial from
\* completed_tutorials; and get_tutorial_list reports as completed exactly
\* the tutorials of the set.
C38_CompletedOnlyAtLastStep ==
    [][/\ completed_tutorials \subseteq completed_tutorials'
       /\ \A id \in completed_tutorials' \ completed_tutorials :
             /\ last'.op = "next_step"
             /\ current_tutorial = id
             /\ current_step = Len(tutorials[id]) - 1
       /\ last'.op \in {"start_tutorial", "end_tutorial", "previous_step",
                        "get_current_step", "get_tutorial_list",
                        "verify_step_completed"}
          => completed_tutorials' = completed_tutorials
       /\ last'.op = "get_tutorial_list" =>
             {last'.result[i].id :
                 i \in {j \in DOMAIN last'.result :
                          last'.result[j].completed}} = completed_tutorials
      ]_vars

\* One tutorial is completed, and another has been ended without a
\* next_step on its last step and is not.
C38_Witness ==
    /\ last.op = "end_tutorial"
    /\ ~IsError(last.result)
    /\ last.result.tutorial_id \notin completed_tutorials
    /\ completed_tutorials # {}
    /\ current_tutorial = None

\* The expected operations of the built-in tutorials.
ExpectedOperations ==
    UNION {{tutorials[id][i].expected_operation :
               i \in {j \in DOMAIN tutorials[id] :
                        "expected_operation" \in DOMAIN tutorials[id][j]}} :
           id \in DOMAIN tutorials}

\* Operations a user can report: each type alone, an allocate of each size a
\* tutorial expects and an access of each address a tutorial expects.
Performable ==
    {[type |-> t] : t \in {"allocate", "access", "deallocate", "reset"}}
    \cup {[type |-> "allocate", size |-> JInt(e.size)] :
             e \in {x \in ExpectedOperations : "size" \in DOMAIN x}}
    \cup {[type |-> "access", address |-> JInt(e.address)] :
             e \in {x \in ExpectedOperations : "address" \in DOMAIN x}}

\* C39: every step of every built-in tutorial is completable: on whatever
\* step a tutorial is, some performed operation makes verify_step_completed
\* return true, also where the expected allocate carries no size.
C39_EveryStepCompletable ==
    current_tutorial # None =>
        \E operation_data \in Performable :
            Verdict(operation_data) = Compared(TRUE, TRUE)

\* C31: a request to advance moves current_step forward only if the current
\* step has no expected operation or the operation data sent with the
\* request satisfies verify_step_completed; otherwise current_step is
\* unchanged.
C31_ExpectedOperationGates ==
    [][(response'.route = "tutorials/next" /\ current_step' # current_step)
          => \/ "expected_operation" \notin DOMAIN CurrentStep
             \/ /\ response'.data # EmptyDict
                /\ Verdict(response'.data) = Compared(TRUE, TRUE)
      ]_vars

====
